---------------------------- MODULE Spec2Model ----------------------------
(***************************************************************************)
(* Model of the vectorised affine-gap pairwise aligner                     *)
(* (rrahn/seqan_pairwise_aligner).                                         *)
(*                                                                         *)
(* Modelled from the sources:                                              *)
(*   - the affine recurrence kernel (initialise_column, compute_cell,      *)
(*     finalise_column) of affine_dp_algorithm,                            *)
(*   - the DP vectors (intermediate_dp_vector, simd_intermediate_dp_vector)*)
(*   - the lane (cached row window: load on construction, store on         *)
(*     destruction),                                                       *)
(*   - the saturated wrapper (update_offset, reset,                        *)
(*     check_saturated_arithmetic),                                        *)
(*   - the rank map / linearised substitution matrix.                      *)
(* The driver loop (dp_algorithm_template_standard::run), the affine       *)
(* initialisation strategy, the trackers and the saturated vector's offset *)
(* bookkeeping are not part of the sources at hand; they are modelled from *)
(* the design document (sections 4.B, 4.G, 4.I and 6).                     *)
(*                                                                         *)
(* Specifications:                                                         *)
(*   Spec        compute() on one pair of sequences, step by step;         *)
(*   SpecBatch   compute() on a SIMD batch of two pairs;                   *)
(*   SpecKernel  compute_cell on arbitrary arguments;                      *)
(*   SpecLane    a lane constructed over a row and destroyed;              *)
(*   SpecRebase  update_offset() of the saturated wrapper;                 *)
(*   SpecProfile the lane profile, built and handed out;                   *)
(*   SpecInvalid compute() on sequences holding a byte without rank;       *)
(*   SpecRepeat  compute() called again on the same object;                *)
(*   SpecRowAt   row_at() of the saturated column, then the kernel;        *)
(*   SpecWindow  a lane over any row and offset, its cache written;        *)
(*   SpecSweep   the kernel's sweep of two consecutive columns;            *)
(*   SpecLanes   the lanes of a row, one after the other;                  *)
(*   SpecPack    the packing of a batch of optional sequences;             *)
(*   SpecRankMap the construction of the rank map, with weak fairness.     *)
(***************************************************************************)
EXTENDS Integers, Sequences, FiniteSets, TLC

(***************************************************************************)
(* Bounds of the model.                                                    *)
(***************************************************************************)
\* longest enumerated input sequence of the one-to-one interface
MaxLen == 3
\* longest enumerated input sequence of a SIMD batch
MaxBatchLen == 1
\* lane width W (a compile-time constant of the program, scaled down)
LaneWidth == 2
\* height H_col of a column block (scaled down)
BlockHeight == 2
\* most cells of a vector rebased on its own
MaxVecLen == 2
\* most sequence symbols of a row a lane is built over on its own
MaxRowLen == 4
\* longest enumerated input sequence holding a byte without rank
MaxInvalidLen == 2
\* longest enumerated input sequence of a repeated call
MaxRepeatLen == 1
\* longest enumerated optional sequence of a batch packed on its own
MaxPackLen == 2

(***************************************************************************)
(* Integer types.                                                          *)
(***************************************************************************)
\* std::numeric_limits<int8_t>::lowest() / max(): the narrow lane type
MIN_B == -128
MAX_B == 127

Max(a, b) == IF a >= b THEN a ELSE b
Min(a, b) == IF a <= b THEN a ELSE b

\* saturation to the narrow lane type
Saturate(x) == IF x > MAX_B THEN MAX_B ELSE IF x < MIN_B THEN MIN_B ELSE x

\* The two score types: "wide" (int32_t lanes) and "narrow" (int8_t lanes with
\* saturating arithmetic).  The wide type is the model checker's own 32 bit
\* integer: an overflow of it is reported as an error of the run, it never
\* wraps silently.
ScalarAdd(score_t, a, b) == IF score_t = "narrow" THEN Saturate(a + b) ELSE a + b
ScalarSub(score_t, a, b) == IF score_t = "narrow" THEN Saturate(a - b) ELSE a - b

(***************************************************************************)
(* simd_score: a vector of lanes 1..L, element-wise operations.            *)
(***************************************************************************)
Broadcast(L, c) == [k \in 1..L |-> c]
VAdd(score_t, a, b) == [k \in DOMAIN a |-> ScalarAdd(score_t, a[k], b[k])]
VSub(score_t, a, b) == [k \in DOMAIN a |-> ScalarSub(score_t, a[k], b[k])]
VMax(a, b) == [k \in DOMAIN a |-> Max(a[k], b[k])]
\* conversion of a narrow vector to the widened type (value preserving)
Widen(a) == [k \in DOMAIN a |-> a[k]]

\* a DP cell: get<0> is the score m, get<1> the gap score v
Cell(m, v) == [m |-> m, v |-> v]

\* vectors are indexed from 0 as in the source
Size(vec) == Cardinality(DOMAIN vec)
EmptyVector == [i \in {} |-> 0]

(***************************************************************************)
(* Score model: rank map and linearised substitution matrix                *)
(* (cfg::score_model_matrix).                                              *)
(***************************************************************************)
\* the symbols of the substitution matrix, in rank order
Alphabet == <<"A", "C", "G", "T">>
dimension == Len(Alphabet)

\* std::array<std::pair<alphabet_t, std::array<score_t, dimension>>, dimension>
\* of a match/mismatch scheme
substitution_matrix(model) ==
    [rank \in 0..(dimension - 1) |->
        [first  |-> Alphabet[rank + 1],
         second |-> [c \in 0..(dimension - 1) |->
                        IF c = rank THEN model.match ELSE model.mismatch]]]

\* the marker of a byte that has no rank: symbol_to_rank_map.fill(255)
InvalidRank == 255

\* the bytes the rank map is modelled for: the matrix symbols and one byte
\* that is no matrix symbol
Bytes == {Alphabet[i] : i \in 1..Len(Alphabet)} \cup {"N"}

\* symbol_to_rank_map: filled with 255, then one rank per matrix symbol, ranks
\* written in ascending order (the last write stays)
symbol_to_rank_map(matrix) ==
    [sym \in Bytes |->
        IF \E r \in DOMAIN matrix : matrix[r].first = sym
        THEN CHOOSE r \in DOMAIN matrix :
                /\ matrix[r].first = sym
                /\ \A q \in DOMAIN matrix : matrix[q].first = sym => q <= r
        ELSE InvalidRank]

\* linear_matrix that copies row rank to every dimension-th entry (column-major)
linear_matrix_column_major(matrix) ==
    [idx \in 0..(dimension * dimension - 1) |->
        matrix[idx % dimension].second[idx \div dimension]]

\* linear_matrix: row rank copied to linear_matrix.data() + rank * dimension
linear_matrix(matrix) ==
    [idx \in 0..(dimension * dimension - 1) |->
        matrix[idx \div dimension].second[idx % dimension]]

\* initialise_profile(row_slice, W): for every rank r of a column symbol, the
\* scores M[r][rank(row_slice[j])] of the slice positions j, read from the
\* linearised matrix through the rank map
initialise_profile(matrix, row_slice) ==
    LET rank == symbol_to_rank_map(matrix)
        linear == linear_matrix(matrix)
    IN [r \in 0..(dimension - 1) |->
           [j \in 0..(Len(row_slice) - 1) |->
               linear[r * dimension + rank[row_slice[j + 1]]]]]

\* the index score_model_matrix::score reads the linearised matrix at
score_index(model, seq1_val, seq2_val) ==
    LET rank == symbol_to_rank_map(substitution_matrix(model))
    IN rank[seq1_val] * dimension + rank[seq2_val]

\* score_model_matrix::score for one lane; a symbol without rank (255) takes
\* the index past the end of the matrix, a read that yields the value oob
score(model, seq1_val, seq2_val, oob) ==
    LET linear == linear_matrix(substitution_matrix(model))
        idx == score_index(model, seq1_val, seq2_val)
    IN IF idx \in DOMAIN linear THEN linear[idx] ELSE oob

\* score of two packed (SIMD) symbols: one lookup per lane
simd_score(model, seq1_val, seq2_val, oob) ==
    [k \in DOMAIN seq1_val |-> score(model, seq1_val[k], seq2_val[k], oob)]

\* some lane of the lookup reads past the end of the matrix
out_of_matrix(model, seq1_val, seq2_val) ==
    \E k \in DOMAIN seq1_val :
        score_index(model, seq1_val[k], seq2_val[k])
            \notin DOMAIN linear_matrix(substitution_matrix(model))

(***************************************************************************)
(* The affine recurrence kernel (affine_dp_algorithm).                     *)
(***************************************************************************)
\* initialise_column that leaves the score of the first column cell in place
\* instead of taking the row cell's
initialise_column_keep_head(score_t, gap, current_row_cell, first_column_cell) ==
    LET L == Len(current_row_cell.m)
        cache == [first |-> first_column_cell.m, second |-> current_row_cell.v]
    IN [cache |-> cache,
        column_cell |->
            [m |-> first_column_cell.m,
             v |-> VMax(VAdd(score_t, cache.first, Broadcast(L, gap.gap_open_score)),
                        VAdd(score_t, first_column_cell.v,
                             Broadcast(L, gap.gap_extension_score)))]]

\* initialise_column that takes the diagonal from the row cell
initialise_column_row_diagonal(score_t, gap, current_row_cell, first_column_cell) ==
    LET L == Len(current_row_cell.m)
        cache == [first |-> current_row_cell.m, second |-> current_row_cell.v]
    IN [cache |-> cache,
        column_cell |->
            Cell(current_row_cell.m,
                 VMax(VAdd(score_t, first_column_cell.m, Broadcast(L, gap.gap_open_score)),
                      VAdd(score_t, first_column_cell.v,
                           Broadcast(L, gap.gap_extension_score))))]

\* initialise_column(current_row_cell, first_column_cell): returns the cache
\* and the modified first column cell
initialise_column(score_t, gap, current_row_cell, first_column_cell) ==
    LET L == Len(current_row_cell.m)
        cache == [first |-> first_column_cell.m, second |-> current_row_cell.v]
    IN [cache |-> cache,
        column_cell |->
            Cell(current_row_cell.m,
                 VMax(VAdd(score_t, cache.first, Broadcast(L, gap.gap_open_score)),
                      VAdd(score_t, first_column_cell.v,
                           Broadcast(L, gap.gap_extension_score))))]

\* finalise_column(current_row_cell, last_column_cell, cache): the new row cell
finalise_column(last_column_cell, cache) ==
    Cell(last_column_cell.m, cache.second)

\* compute_cell that does not slide the diagonal: cache.first keeps its value
compute_cell_stale_diagonal(score_t, gap, cache, column_cell, s) ==
    LET L == Len(column_cell.m)
        horizontal_score == column_cell.v
        open == gap.gap_open_score + gap.gap_extension_score
        first1 == VAdd(score_t, cache.first, s)
        first2 == VMax(VMax(first1, cache.second), horizontal_score)
        first3 == VAdd(score_t, first2, Broadcast(L, open))
        second == VMax(VAdd(score_t, cache.second,
                            Broadcast(L, gap.gap_extension_score)), first3)
        v == VMax(VAdd(score_t, horizontal_score,
                       Broadcast(L, gap.gap_extension_score)), first3)
    IN [cache |-> [first |-> cache.first, second |-> second],
        column_cell |-> Cell(first2, v)]

\* compute_cell that opens a gap at gap_open alone, without the extension
compute_cell_open_only(score_t, gap, cache, column_cell, s) ==
    LET L == Len(column_cell.m)
        next_diagonal == column_cell.m
        horizontal_score == column_cell.v
        first1 == VAdd(score_t, cache.first, s)
        first2 == VMax(VMax(first1, cache.second), horizontal_score)
        first3 == VAdd(score_t, first2, Broadcast(L, gap.gap_open_score))
        second == VMax(VAdd(score_t, cache.second,
                            Broadcast(L, gap.gap_extension_score)), first3)
        v == VMax(VAdd(score_t, horizontal_score,
                       Broadcast(L, gap.gap_extension_score)), first3)
    IN [cache |-> [first |-> next_diagonal, second |-> second],
        column_cell |-> Cell(first2, v)]

\* compute_cell(cache, column_cell, seq1_val, seq2_val); s is
\* _score_model.score(seq1_val, seq2_val)
compute_cell(score_t, gap, cache, column_cell, s) ==
    LET L == Len(column_cell.m)
        next_diagonal == column_cell.m
        horizontal_score == column_cell.v
        open == gap.gap_open_score + gap.gap_extension_score
        first1 == VAdd(score_t, cache.first, s)
        first2 == VMax(VMax(first1, cache.second), horizontal_score)
        first3 == VAdd(score_t, first2, Broadcast(L, open))
        second == VMax(VAdd(score_t, cache.second,
                            Broadcast(L, gap.gap_extension_score)), first3)
        v == VMax(VAdd(score_t, horizontal_score,
                       Broadcast(L, gap.gap_extension_score)), first3)
    IN [cache |-> [first |-> next_diagonal, second |-> second],
        column_cell |-> Cell(first2, v)]

(***************************************************************************)
(* DP vectors.                                                             *)
(***************************************************************************)
\* the sentinel seeding the gap score v of an initialised cell
SentinelV == -1000000

\* affine_initialisation_strategy, the i-th cell it is invoked on
affine_initialisation_strategy(mode, gap, L, i) ==
    IF mode = "local" \/ i = 0
    THEN Cell(Broadcast(L, 0), Broadcast(L, SentinelV))
    ELSE Cell(Broadcast(L, gap.gap_open_score + i * gap.gap_extension_score),
              Broadcast(L, SentinelV))

\* initialise that resizes the vector to sequence_size + 2
intermediate_dp_vector_initialise_extra_cell(sequence, mode, gap, L) ==
    LET sequence_size == Len(sequence)
    IN [i \in 0..(sequence_size + 1) |->
            [m |-> [k \in 1..L |-> 0], v |-> [k \in 1..L |-> 0]]]

\* intermediate_dp_vector::initialise: resize(sequence_size + 1), then the
\* strategy on every cell in order
intermediate_dp_vector_initialise(sequence, mode, gap, L) ==
    LET sequence_size == Len(sequence)
    IN [i \in 0..sequence_size |-> affine_initialisation_strategy(mode, gap, L, i)]

\* max_sequence_size of simd_intermediate_dp_vector::initialise
max_sequence_size(sequences) ==
    LET lens == {Len(sequences[i]) : i \in DOMAIN sequences}
    IN CHOOSE n \in lens : \A q \in lens : q <= n

\* simd_sequence of simd_intermediate_dp_vector::initialise:
\* simd_sequence[j][i] = it[j] for every i < sequence_count and every
\* j < max_sequence_size; it[j] past the end of sequence i is an out-of-bounds
\* read, which yields the byte garbage
simd_sequence(sequences, garbage) ==
    [j \in 1..max_sequence_size(sequences) |->
        [i \in DOMAIN sequences |->
            IF j <= Len(sequences[i]) THEN sequences[i][j] ELSE garbage]]

\* the column vector cut into blocks of BlockHeight sequence symbols: block b
\* holds its head cell (the border to the previous block) and its own cells
column_block_count(column) ==
    Max(1, (Size(column) - 1 + BlockHeight - 1) \div BlockHeight)

column_blocks(column) ==
    [b \in 0..(column_block_count(column) - 1) |->
        LET first == b * BlockHeight
            last == Min(first + BlockHeight, Size(column) - 1)
        IN [i \in 0..(last - first) |-> column[first + i]]]

(***************************************************************************)
(* Lane (dp_matrix_lane.hpp).                                              *)
(***************************************************************************)
\* a default constructed cell of the cache
DefaultCell(L) == Cell(Broadcast(L, 0), Broadcast(L, 0))

\* the number of cells the lane transfers: width() when not the last lane,
\* end_index = row.size() - _row_offset when the last lane
lane_end_index(row, _row_offset, is_last_lane) ==
    IF is_last_lane THEN Size(row) - _row_offset ELSE LaneWidth

\* a lane that keeps the row offset it was given
lane_row_offset_unshifted(row_offset) == row_offset

\* the member initialiser _row_offset{row_offset + 1}
lane_row_offset(row_offset) == row_offset + 1

\* constructor: _row_offset{row_offset + 1}, then unroll_load or the loop
lane_construct(row, row_offset, is_last_lane, L) ==
    LET _row_offset == lane_row_offset(row_offset)
        end_index == lane_end_index(row, _row_offset, is_last_lane)
    IN [_cached_row |-> [i \in 0..(LaneWidth - 1) |->
                            IF i < end_index THEN row[i + _row_offset]
                            ELSE DefaultCell(L)],
        _row_offset |-> _row_offset,
        is_last_lane |-> is_last_lane]

\* destructor that stores the cache at row_offset instead of _row_offset
lane_destroy_shifted(row, lane) ==
    LET end_index == lane_end_index(row, lane._row_offset, lane.is_last_lane)
    IN [j \in DOMAIN row |->
            IF j >= lane._row_offset - 1 /\ j - (lane._row_offset - 1) < end_index
            THEN lane._cached_row[j - (lane._row_offset - 1)]
            ELSE row[j]]

\* destructor that also stores the first cached cell into cell 0 of the row
lane_destroy_with_first_cell(row, lane) ==
    LET end_index == lane_end_index(row, lane._row_offset, lane.is_last_lane)
    IN [j \in DOMAIN row |->
            IF j = 0 THEN lane._cached_row[0]
            ELSE IF j >= lane._row_offset /\ j - lane._row_offset < end_index
            THEN lane._cached_row[j - lane._row_offset]
            ELSE row[j]]

\* destructor: unroll_store or the loop; the row after the lane is gone
lane_destroy(row, lane) ==
    LET end_index == lane_end_index(row, lane._row_offset, lane.is_last_lane)
    IN [j \in DOMAIN row |->
            IF j >= lane._row_offset /\ j - lane._row_offset < end_index
            THEN lane._cached_row[j - lane._row_offset]
            ELSE row[j]]

(***************************************************************************)
(* Saturated wrapper (dp_matrix_column_saturated.hpp) over a narrow DP     *)
(* vector vec = [cells, _offset, _saturated_zero_offset, is_row].          *)
(***************************************************************************)
\* is_row_cell_v<value_type>, converted to the index of the pivot
is_row_cell_v(vec) == IF vec.is_row THEN 1 ELSE 0

\* dp_vector.saturated_zero_offset(): the constant ZERO
saturated_zero_offset(vec) == vec._saturated_zero_offset

\* values -= new_offset; values += saturated_zero_offset(), in the narrow type
real_score(vec, values, new_offset) ==
    VAdd("narrow", VSub("narrow", values, new_offset), saturated_zero_offset(vec))

\* large_score_t{values} - large_score_t{new_offset}
\*     + large_score_t{saturated_zero_offset()}, in the widened type
expected_score(vec, values, new_offset) ==
    VAdd("wide", VSub("wide", Widen(values), Widen(new_offset)),
         Widen(saturated_zero_offset(vec)))

\* reset that leaves out values += saturated_zero_offset()
reset_without_zero(vec, new_offset) ==
    [vec EXCEPT !.cells =
        [i \in DOMAIN vec.cells |->
            Cell(VSub("narrow", vec.cells[i].m, new_offset),
                 VSub("narrow", vec.cells[i].v, new_offset))]]

\* reset whose loop starts at the second cell
reset_from_second_cell(vec, new_offset) ==
    [vec EXCEPT !.cells =
        [i \in DOMAIN vec.cells |->
            IF i = 0 THEN vec.cells[i]
            ELSE Cell(real_score(vec, vec.cells[i].m, new_offset),
                      real_score(vec, vec.cells[i].v, new_offset))]]

\* reset in plain integer arithmetic, without saturation
reset_unsaturated(vec, new_offset) ==
    [vec EXCEPT !.cells =
        [i \in DOMAIN vec.cells |->
            Cell(expected_score(vec, vec.cells[i].m, new_offset),
                 expected_score(vec, vec.cells[i].v, new_offset))]]

\* reset: every value of every cell
reset(vec, new_offset) ==
    [vec EXCEPT !.cells =
        [i \in DOMAIN vec.cells |->
            Cell(real_score(vec, vec.cells[i].m, new_offset),
                 real_score(vec, vec.cells[i].v, new_offset))]]

\* dp_vector.update_offset(new_offset): the stored offset becomes
\* offset + new_offset - ZERO in the widened type
dp_vector_update_offset(vec, new_offset) ==
    [vec EXCEPT !._offset =
        VSub("wide", VAdd("wide", vec._offset, Widen(new_offset)),
             Widen(saturated_zero_offset(vec)))]

update_offset_impl(vec, new_offset) ==
    dp_vector_update_offset(reset(vec, new_offset), new_offset)

\* check that compares the scores m only
check_saturated_arithmetic_scores_only(vec, new_offset) ==
    \A i \in DOMAIN vec.cells :
        expected_score(vec, vec.cells[i].m, new_offset)
            = real_score(vec, vec.cells[i].m, new_offset)

\* check_saturated_arithmetic: false when a lane of the score of a cell, or of
\* the gap score of a cell with i > 0, differs from the widened computation
check_saturated_arithmetic(vec, new_offset) ==
    \A i \in DOMAIN vec.cells :
        /\ \A k \in DOMAIN new_offset :
              expected_score(vec, vec.cells[i].m, new_offset)[k]
                  = real_score(vec, vec.cells[i].m, new_offset)[k]
        /\ i > 0 =>
              \A k \in DOMAIN new_offset :
                  expected_score(vec, vec.cells[i].v, new_offset)[k]
                      = real_score(vec, vec.cells[i].v, new_offset)[k]

(***************************************************************************)
(* Trackers.                                                               *)
(***************************************************************************)
\* tracker::local_scalar: the running maximum over the computed cells
tracker_track(mode, tracker, m) == IF mode = "local" THEN VMax(tracker, m) ELSE tracker

\* the final score: the bottom-right cell (global), the running maximum
\* clamped at 0 (local)
tracker_score(mode, tracker, column) ==
    IF mode = "local"
    THEN VMax(tracker, [k \in DOMAIN tracker |-> 0])
    ELSE LET last_block == column[Size(column) - 1]
         IN last_block[Size(last_block) - 1].m

(***************************************************************************)
(* Inputs.                                                                 *)
(***************************************************************************)
RECURSIVE SeqsUpTo(_, _)
SeqsUpTo(S, n) ==
    IF n = 0 THEN {<<>>}
    ELSE LET shorter == SeqsUpTo(S, n - 1)
         IN shorter \cup {Append(s, x) : s \in shorter, x \in S}

\* the scoring models: match/mismatch scheme and affine gap model
GapModels ==
    {[match |-> 4, mismatch |-> -2, gap_open_score |-> -4, gap_extension_score |-> -1],
     [match |-> 1, mismatch |-> -1, gap_open_score |-> -1, gap_extension_score |-> -1]}
DnaModel ==
    [match |-> 4, mismatch |-> -2, gap_open_score |-> -4, gap_extension_score |-> -1]

\* the end-to-end scenarios of the design document
Scenario1 == [seq1 |-> <<"A","C","G","T">>, seq2 |-> <<"A","C","G","T">>]
Scenario2 == [seq1 |-> <<"A","C","G","T">>, seq2 |-> <<"A","C","C","T">>]
Scenario3 == [seq1 |-> <<"A","C","G","T">>, seq2 |-> <<>>]
Scenario4 == [seq1 |-> <<"A","A","A","A","C","G","T","A","A","A","A">>,
              seq2 |-> <<"C","G","T">>]
Scenario5 == [seq1 |-> <<"T","T","A","A","C","C","G","G">>,
              seq2 |-> <<"A","A","C","C","G","G">>]
Scenarios == {Scenario1, Scenario2, Scenario3, Scenario4, Scenario5}

\* a pair whose best local alignment follows two mismatches
LocalProbe == [seq1 |-> <<"A","A","C">>, seq2 |-> <<"G","G","C">>]

EnumeratedPairs ==
    {[seq1 |-> a, seq2 |-> b] : a \in SeqsUpTo({"A", "C"}, MaxLen),
                                b \in SeqsUpTo({"A", "C"}, MaxLen)}

(***************************************************************************)
(* State.                                                                  *)
(***************************************************************************)
VARIABLES
    pc,          \* position of compute(): idle, block, lane, column, cell,
                 \* flush, result, done; crashed after a faulting read
    batch,       \* the alignment pairs, one per SIMD lane
    mode,        \* "global" or "local" (configuration_t::is_local)
    model,       \* the scoring model
    garbage,     \* what a read out of bounds yields: the byte of a sequence
                 \* read, the score of a matrix read, or a fault of that read
    sequence1,   \* the (packed) sequences the kernel reads
    sequence2,
    dp_column,   \* the column vector, in blocks
    dp_row,      \* the row vector
    blk,         \* index of the current block
    row_offset,  \* row offset of the current lane
    lane,        \* the live lane, if any
    col_k,       \* index of the current column within the lane
    cell_i,      \* index of the current cell within the column block
    cache,       \* the kernel's cache (diagonal, gap score)
    tracker,     \* the tracker's running optimum
    result,      \* the score compute() returned
    repeated,    \* compute() has been called on this object before
    upc,         \* position of a component exercised on its own: unused,
                 \* call, live, returned, aborted
    unit,        \* the component exercised on its own and its arguments
    before       \* unit as it was when the last operation on it started

vars == <<pc, batch, mode, model, garbage, sequence1, sequence2, dp_column,
          dp_row, blk, row_offset, lane, col_k, cell_i, cache, tracker, result,
          repeated, upc, unit, before>>
unit_vars == <<upc, unit, before>>
engine_vars == <<pc, batch, mode, model, garbage, sequence1, sequence2, dp_column,
                 dp_row, blk, row_offset, lane, col_k, cell_i, cache, tracker,
                 result, repeated>>

NoLane == [is_last_lane |-> FALSE, _row_offset |-> 0, _cached_row |-> EmptyVector]
NoCache == [first |-> <<>>, second |-> <<>>]
LaneCount == Len(batch)

\* the state after construction: dp_vector_column_t{}, dp_vector_row_t{}
InitEngine ==
    /\ pc = "idle"
    /\ garbage = [byte |-> "A", score |-> 0, fault |-> FALSE]
    /\ sequence1 = <<>>
    /\ sequence2 = <<>>
    /\ dp_column = EmptyVector
    /\ dp_row = EmptyVector
    /\ blk = 0
    /\ row_offset = 0
    /\ lane = NoLane
    /\ col_k = 0
    /\ cell_i = 0
    /\ cache = NoCache
    /\ tracker = <<>>
    /\ result = <<>>
    /\ repeated = FALSE

NoUnit == [kind |-> "none"]
InitUnit ==
    /\ upc = "unused"
    /\ unit = NoUnit
    /\ before = NoUnit

Init ==
    /\ batch \in {<<p>> : p \in EnumeratedPairs \cup Scenarios \cup {LocalProbe}}
    /\ mode \in {"global", "local"}
    /\ model \in (IF batch[1] \in Scenarios THEN {DnaModel} ELSE GapModels)
    /\ InitEngine
    /\ InitUnit

(***************************************************************************)
(* compute(): dp_algorithm_t::run, one step per action.                    *)
(***************************************************************************)
\* initialise_column_vector / initialise_row_vector
Initialise ==
    /\ pc = "idle"
    /\ LET s1 == simd_sequence([k \in DOMAIN batch |-> batch[k].seq1], garbage.byte)
           s2 == simd_sequence([k \in DOMAIN batch |-> batch[k].seq2], garbage.byte)
       IN /\ sequence1' = s1
          /\ sequence2' = s2
          /\ dp_column' = column_blocks(
                              intermediate_dp_vector_initialise(s1, mode, model, LaneCount))
          /\ dp_row' = intermediate_dp_vector_initialise(s2, mode, model, LaneCount)
    /\ tracker' = Broadcast(LaneCount, 0)
    /\ blk' = 0
    /\ pc' = "block"
    /\ UNCHANGED <<unit_vars, repeated>>
    /\ UNCHANGED <<batch, mode, model, garbage, row_offset, lane, col_k, cell_i,
                   cache, result>>

\* row_at(blk) of the unsaturated column: hands the block through
RowAt ==
    /\ pc = "block"
    /\ row_offset' = 0
    /\ pc' = "lane"
    /\ UNCHANGED <<unit_vars, repeated>>
    /\ UNCHANGED <<batch, mode, model, garbage, sequence1, sequence2, dp_column,
                   dp_row, blk, lane, col_k, cell_i, cache, tracker, result>>

\* the lanes of a row: full lanes at offsets 0, W, 2W, ..., then the last lane
IsLastLane(row, offset) == Size(row) - 1 - offset < LaneWidth

LaneConstruct ==
    /\ pc = "lane"
    /\ LET l == lane_construct(dp_row, row_offset, IsLastLane(dp_row, row_offset),
                               LaneCount)
       IN /\ lane' = l
          /\ pc' = IF lane_end_index(dp_row, l._row_offset, l.is_last_lane) > 0
                   THEN "column" ELSE "flush"
    /\ col_k' = 0
    /\ UNCHANGED <<unit_vars, repeated>>
    /\ UNCHANGED <<batch, mode, model, garbage, sequence1, sequence2, dp_column,
                   dp_row, blk, row_offset, cell_i, cache, tracker, result>>

InitialiseColumn ==
    /\ pc = "column"
    /\ LET r == initialise_column("wide", model, lane._cached_row[col_k],
                                  dp_column[blk][0])
       IN /\ cache' = r.cache
          /\ dp_column' = [dp_column EXCEPT ![blk][0] = r.column_cell]
    /\ cell_i' = 1
    /\ pc' = "cell"
    /\ UNCHANGED <<unit_vars, repeated>>
    /\ UNCHANGED <<batch, mode, model, garbage, sequence1, sequence2, dp_row, blk,
                   row_offset, lane, col_k, tracker, result>>

ComputeCell ==
    /\ pc = "cell"
    /\ cell_i < Size(dp_column[blk])
    /\ LET seq1_val == sequence1[blk * BlockHeight + cell_i]
           seq2_val == sequence2[lane._row_offset + col_k]
           r == compute_cell("wide", model, cache, dp_column[blk][cell_i],
                             simd_score(model, seq1_val, seq2_val, garbage.score))
       IN IF out_of_matrix(model, seq1_val, seq2_val) /\ garbage.fault
          THEN /\ pc' = "crashed"
               /\ UNCHANGED <<cache, dp_column, tracker, cell_i>>
          ELSE /\ cache' = r.cache
               /\ dp_column' = [dp_column EXCEPT ![blk][cell_i] = r.column_cell]
               /\ tracker' = tracker_track(mode, tracker, r.column_cell.m)
               /\ cell_i' = cell_i + 1
               /\ pc' = pc
    /\ UNCHANGED <<unit_vars, repeated>>
    /\ UNCHANGED <<batch, mode, model, garbage, sequence1, sequence2, dp_row,
                   blk, row_offset, lane, col_k, result>>

FinaliseColumn ==
    /\ pc = "cell"
    /\ cell_i = Size(dp_column[blk])
    /\ lane' = [lane EXCEPT !._cached_row[col_k] =
                    finalise_column(dp_column[blk][cell_i - 1], cache)]
    /\ col_k' = col_k + 1
    /\ pc' = IF col_k + 1 < lane_end_index(dp_row, lane._row_offset, lane.is_last_lane)
             THEN "column" ELSE "flush"
    /\ UNCHANGED <<unit_vars, repeated>>
    /\ UNCHANGED <<batch, mode, model, garbage, sequence1, sequence2, dp_column,
                   dp_row, blk, row_offset, cell_i, cache, tracker, result>>

LaneDestroy ==
    /\ pc = "flush"
    /\ dp_row' = lane_destroy(dp_row, lane)
    /\ lane' = NoLane
    /\ IF ~lane.is_last_lane
       THEN /\ row_offset' = row_offset + LaneWidth
            /\ pc' = "lane"
            /\ blk' = blk
       ELSE /\ row_offset' = 0
            /\ IF blk + 1 < Size(dp_column)
               THEN pc' = "block" /\ blk' = blk + 1
               ELSE pc' = "result" /\ blk' = blk
    /\ UNCHANGED <<unit_vars, repeated>>
    /\ UNCHANGED <<batch, mode, model, garbage, sequence1, sequence2, dp_column,
                   col_k, cell_i, cache, tracker, result>>

\* return result.score()
Return ==
    /\ pc = "result"
    /\ result' = tracker_score(mode, tracker, dp_column)
    /\ pc' = "done"
    /\ UNCHANGED <<unit_vars, repeated>>
    /\ UNCHANGED <<batch, mode, model, garbage, sequence1, sequence2, dp_column,
                   dp_row, blk, row_offset, lane, col_k, cell_i, cache, tracker>>

Next ==
    \/ Initialise
    \/ RowAt
    \/ LaneConstruct
    \/ InitialiseColumn
    \/ ComputeCell
    \/ FinaliseColumn
    \/ LaneDestroy
    \/ Return

Spec == Init /\ [][Next]_vars

(***************************************************************************)
(* A SIMD batch: one pair per lane, the same compute().  Sequences of      *)
(* different lengths are packed up to the longest; the symbol read past    *)
(* the end of a shorter sequence is whatever byte lies there.              *)
(***************************************************************************)
BatchPairs ==
    {[seq1 |-> a, seq2 |-> b] : a \in SeqsUpTo({"A", "C"}, MaxBatchLen),
                                b \in SeqsUpTo({"A", "C"}, MaxBatchLen)}

InitBatch ==
    /\ batch \in {<<p, q>> : p \in BatchPairs, q \in BatchPairs}
    /\ mode \in {"global", "local"}
    /\ model \in GapModels
    /\ pc = "idle"
    /\ garbage \in {[byte |-> b, score |-> 0, fault |-> FALSE] : b \in {"A", "C"}}
    /\ sequence1 = <<>>
    /\ sequence2 = <<>>
    /\ dp_column = EmptyVector
    /\ dp_row = EmptyVector
    /\ blk = 0
    /\ row_offset = 0
    /\ lane = NoLane
    /\ col_k = 0
    /\ cell_i = 0
    /\ cache = NoCache
    /\ tracker = <<>>
    /\ result = <<>>
    /\ repeated = FALSE
    /\ InitUnit

SpecBatch == InitBatch /\ [][Next]_vars

(***************************************************************************)
(* compute() of one pair on its own, as a function: the same kernel calls  *)
(* in the same order, column by column within each block (the lanes only   *)
(* cache the row).                                                         *)
(***************************************************************************)
\* cells i.. of one column of block b; st = [column, cache, tracker]
RECURSIVE SweepCells(_, _, _, _, _, _, _)
SweepCells(md, g, s1, seq2_val, b, i, st) ==
    IF i >= Size(st.column) THEN st
    ELSE LET r == compute_cell("wide", g, st.cache, st.column[i],
                               simd_score(g, s1[b * BlockHeight + i], seq2_val, 0))
         IN SweepCells(md, g, s1, seq2_val, b, i + 1,
                       [column |-> [st.column EXCEPT ![i] = r.column_cell],
                        cache |-> r.cache,
                        tracker |-> tracker_track(md, st.tracker, r.column_cell.m)])

\* columns j.. of block b; st = [column, row, tracker]
RECURSIVE SweepColumns(_, _, _, _, _, _, _)
SweepColumns(md, g, s1, s2, b, j, st) ==
    IF j >= Size(st.row) THEN st
    ELSE LET h == initialise_column("wide", g, st.row[j], st.column[0])
             c == SweepCells(md, g, s1, s2[j], b, 1,
                             [column |-> [st.column EXCEPT ![0] = h.column_cell],
                              cache |-> h.cache, tracker |-> st.tracker])
         IN SweepColumns(md, g, s1, s2, b, j + 1,
                [column |-> c.column,
                 row |-> [st.row EXCEPT ![j] =
                             finalise_column(c.column[Size(c.column) - 1], c.cache)],
                 tracker |-> c.tracker])

\* blocks b.. ; st = [blocks, row, tracker]
RECURSIVE SweepBlocks(_, _, _, _, _, _)
SweepBlocks(md, g, s1, s2, b, st) ==
    IF b >= Size(st.blocks) THEN st
    ELSE LET c == SweepColumns(md, g, s1, s2, b, 1,
                     [column |-> st.blocks[b], row |-> st.row, tracker |-> st.tracker])
         IN SweepBlocks(md, g, s1, s2, b + 1,
                [blocks |-> [st.blocks EXCEPT ![b] = c.column],
                 row |-> c.row, tracker |-> c.tracker])

AloneScore(md, g, pair) ==
    LET s1 == simd_sequence(<<pair.seq1>>, "A")
        s2 == simd_sequence(<<pair.seq2>>, "A")
        st == SweepBlocks(md, g, s1, s2, 0,
                 [blocks |-> column_blocks(intermediate_dp_vector_initialise(s1, md, g, 1)),
                  row |-> intermediate_dp_vector_initialise(s2, md, g, 1),
                  tracker |-> Broadcast(1, 0)])
    IN tracker_score(md, st.tracker, st.blocks)[1]

(***************************************************************************)
(* The kernel on its own: compute_cell on arbitrary arguments, in the wide *)
(* and in the narrow (saturating) score type.                              *)
(***************************************************************************)
KernelValues == {MIN_B, -3, 0, 5, MAX_B}
KernelScores == {-2, 4}

InitKernel ==
    /\ InitEngine
    /\ batch = <<>>
    /\ mode = "global"
    /\ model = DnaModel
    /\ upc = "call"
    /\ before = NoUnit
    /\ unit \in {[kind |-> "kernel", score_t |-> t, gap |-> g,
                   cache |-> [first |-> <<d>>, second |-> <<h>>],
                   column_cell |-> Cell(<<m>>, <<v>>), s |-> <<s>>] :
                     t \in {"narrow", "wide"}, g \in GapModels,
                     d \in KernelValues, h \in KernelValues,
                     m \in KernelValues, v \in KernelValues,
                     s \in KernelScores}

KernelComputeCell ==
    /\ upc = "call"
    /\ unit.kind = "kernel"
    /\ LET r == compute_cell(unit.score_t, unit.gap, unit.cache, unit.column_cell,
                             unit.s)
       IN unit' = [unit EXCEPT !.cache = r.cache, !.column_cell = r.column_cell]
    /\ before' = unit
    /\ upc' = "returned"
    /\ UNCHANGED engine_vars

NextKernel == KernelComputeCell

SpecKernel == InitKernel /\ [][NextKernel]_vars

(***************************************************************************)
(* The lane on its own: constructed over a row and destroyed, its cached   *)
(* cells untouched in between.  The lanes are those whose window lies      *)
(* inside the row and inside the cache.                                    *)
(***************************************************************************)
RowCells == {Cell(<<1>>, <<-1>>), Cell(<<2>>, <<-2>>)}
Rows == UNION {[0..n -> RowCells] : n \in 0..MaxRowLen}

LaneFits(row, a, is_last_lane) ==
    IF is_last_lane
    THEN a + 1 <= Size(row) /\ Size(row) - (a + 1) <= LaneWidth
    ELSE a + 1 + LaneWidth <= Size(row)

InitLane ==
    /\ InitEngine
    /\ batch = <<>>
    /\ mode = "global"
    /\ model = DnaModel
    /\ upc = "call"
    /\ before = NoUnit
    /\ unit \in {[kind |-> "lane", row |-> r, row_offset |-> a,
                   is_last_lane |-> l, lane |-> NoLane] :
                     r \in Rows, a \in 0..MaxRowLen, l \in BOOLEAN}
    /\ LaneFits(unit.row, unit.row_offset, unit.is_last_lane)

LaneLoad ==
    /\ upc = "call"
    /\ unit.kind = "lane"
    /\ unit' = [unit EXCEPT !.lane = lane_construct(unit.row, unit.row_offset,
                                                    unit.is_last_lane, 1)]
    /\ before' = unit
    /\ upc' = "live"
    /\ UNCHANGED engine_vars

LaneStore ==
    /\ upc = "live"
    /\ unit.kind = "lane"
    /\ unit' = [unit EXCEPT !.row = lane_destroy(unit.row, unit.lane),
                            !.lane = NoLane]
    /\ before' = before
    /\ upc' = "returned"
    /\ UNCHANGED engine_vars

NextLane ==
    \/ LaneLoad
    \/ LaneStore

SpecLane == InitLane /\ [][NextLane]_vars

(***************************************************************************)
(* The saturated wrapper on its own: update_offset() on arbitrary narrow   *)
(* vectors of two lanes, over a column (pivot cell 0) or a row (pivot cell *)
(* 1), in a build with assertions (ndebug = FALSE) and in one without.     *)
(***************************************************************************)
LaneValues == {<<0, 0>>, <<120, 5>>, <<MIN_B, 120>>, <<-3, MIN_B>>}
\* the scores m also take a value that a rebase by 0 moves without saturation
ScoreValues == LaneValues \cup {<<100, -100>>}
VecCells == {Cell(m, v) : m \in ScoreValues, v \in LaneValues}
ZeroOffsets == {<<0, 0>>, <<16, 16>>}
Offsets == {<<0, 0>>, <<7, -300>>}

InitRebase ==
    /\ InitEngine
    /\ batch = <<>>
    /\ mode = "global"
    /\ model = DnaModel
    /\ upc = "call"
    /\ before = NoUnit
    /\ unit \in {[kind |-> "wrapper", ndebug |-> nd, check |-> "none",
                   vec |-> [cells |-> c, _offset |-> o,
                            _saturated_zero_offset |-> z, is_row |-> r]] :
                     nd \in BOOLEAN, r \in BOOLEAN, o \in Offsets,
                     z \in ZeroOffsets,
                     c \in UNION {[0..(n - 1) -> VecCells] : n \in 1..MaxVecLen}}
    /\ unit.vec.is_row => Size(unit.vec.cells) >= 2

\* update_offset() that takes the score of cell 0 whatever the cell type
UpdateOffset_first_cell ==
    /\ upc \in {"call", "returned"}
    /\ unit.kind = "wrapper"
    /\ LET new_offset == unit.vec.cells[0].m
       IN IF ~unit.ndebug /\ ~check_saturated_arithmetic(unit.vec, new_offset)
          THEN /\ unit' = [unit EXCEPT !.check = "failed"]
               /\ upc' = "aborted"
          ELSE /\ unit' = [unit EXCEPT
                              !.vec = update_offset_impl(unit.vec, new_offset),
                              !.check = IF unit.ndebug THEN "none" ELSE "passed"]
               /\ upc' = "returned"
    /\ before' = unit
    /\ UNCHANGED engine_vars

\* update_offset() that rebases first and checks the rebased cells
UpdateOffset_check_after ==
    /\ upc \in {"call", "returned"}
    /\ unit.kind = "wrapper"
    /\ LET new_offset == unit.vec.cells[is_row_cell_v(unit.vec)].m
           rebased == update_offset_impl(unit.vec, new_offset)
       IN IF ~unit.ndebug /\ ~check_saturated_arithmetic(rebased, new_offset)
          THEN /\ unit' = [unit EXCEPT !.vec = rebased, !.check = "failed"]
               /\ upc' = "aborted"
          ELSE /\ unit' = [unit EXCEPT
                              !.vec = rebased,
                              !.check = IF unit.ndebug THEN "none" ELSE "passed"]
               /\ upc' = "returned"
    /\ before' = unit
    /\ UNCHANGED engine_vars

\* update_offset(): the pivot's score, the assertion on the check (compiled
\* out when NDEBUG is defined; a failed assertion aborts the program), then
\* update_offset_impl
UpdateOffset ==
    /\ upc \in {"call", "returned"}
    /\ unit.kind = "wrapper"
    /\ LET new_offset == unit.vec.cells[is_row_cell_v(unit.vec)].m
       IN IF ~unit.ndebug /\ ~check_saturated_arithmetic(unit.vec, new_offset)
          THEN /\ unit' = [unit EXCEPT !.check = "failed"]
               /\ upc' = "aborted"
          ELSE /\ unit' = [unit EXCEPT
                              !.vec = update_offset_impl(unit.vec, new_offset),
                              !.check = IF unit.ndebug THEN "none" ELSE "passed"]
               /\ upc' = "returned"
    /\ before' = unit
    /\ UNCHANGED engine_vars

NextRebase == UpdateOffset

SpecRebase == InitRebase /\ [][NextRebase]_vars

(***************************************************************************)
(* The lane profile on its own (dp_matrix_lane_profile.hpp): built at      *)
(* construction from the lane's row sequence slice, handed out by          *)
(* row_sequence().  The matrices are asymmetric with pairwise distinct     *)
(* entries, their symbols in two different rank orders.                    *)
(***************************************************************************)
ProfileMatrix(order) ==
    [rank \in 0..(dimension - 1) |->
        [first  |-> order[rank + 1],
         second |-> [c \in 0..(dimension - 1) |-> 10 * rank + c - 5]]]
ProfileMatrices ==
    {ProfileMatrix(<<"A", "C", "G", "T">>), ProfileMatrix(<<"T", "A", "G", "C">>)}

InitProfile ==
    /\ InitEngine
    /\ batch = <<>>
    /\ mode = "global"
    /\ model = DnaModel
    /\ upc = "call"
    /\ before = NoUnit
    /\ unit \in {[kind |-> "profile", matrix |-> mx, row_slice |-> sl,
                   _profile |-> <<>>, returned |-> <<>>] :
                     mx \in ProfileMatrices,
                     sl \in SeqsUpTo({"A", "C", "G", "T"}, LaneWidth)}

\* _lane_profile::_type constructor
LaneProfileConstruct ==
    /\ upc = "call"
    /\ unit.kind = "profile"
    /\ unit' = [unit EXCEPT !._profile = initialise_profile(unit.matrix, unit.row_slice)]
    /\ before' = unit
    /\ upc' = "live"
    /\ UNCHANGED engine_vars

\* row_sequence()
ProfileRowSequence ==
    /\ upc = "live"
    /\ unit.kind = "profile"
    /\ unit' = [unit EXCEPT !.returned = unit._profile]
    /\ before' = unit
    /\ upc' = "returned"
    /\ UNCHANGED engine_vars

NextProfile ==
    \/ LaneProfileConstruct
    \/ ProfileRowSequence

SpecProfile == InitProfile /\ [][NextProfile]_vars

(***************************************************************************)
(* compute() on sequences that hold a byte without rank ("N" is no symbol  *)
(* of the matrix).  The lookup of such a byte reads past the end of the    *)
(* linearised matrix: the read yields some value or faults.                *)
(***************************************************************************)
HasInvalidByte(sequence) ==
    \E j \in DOMAIN sequence :
        symbol_to_rank_map(substitution_matrix(DnaModel))[sequence[j]] = InvalidRank

InvalidPairs ==
    {p \in {[seq1 |-> a, seq2 |-> b] : a \in SeqsUpTo({"A", "N"}, MaxInvalidLen),
                                       b \in SeqsUpTo({"A", "N"}, MaxInvalidLen)} :
        HasInvalidByte(p.seq1) \/ HasInvalidByte(p.seq2)}

InitInvalid ==
    /\ batch \in {<<p>> : p \in InvalidPairs}
    /\ mode \in {"global", "local"}
    /\ model = DnaModel
    /\ pc = "idle"
    /\ garbage \in {[byte |-> "A", score |-> x, fault |-> f] :
                       x \in {0, 9}, f \in BOOLEAN}
    /\ sequence1 = <<>>
    /\ sequence2 = <<>>
    /\ dp_column = EmptyVector
    /\ dp_row = EmptyVector
    /\ blk = 0
    /\ row_offset = 0
    /\ lane = NoLane
    /\ col_k = 0
    /\ cell_i = 0
    /\ cache = NoCache
    /\ tracker = <<>>
    /\ result = <<>>
    /\ repeated = FALSE
    /\ InitUnit

SpecInvalid == InitInvalid /\ [][Next]_vars

(***************************************************************************)
(* compute() called again on the same object                               *)
(* (interface_one_to_one_single.hpp).  The object holds the scoring model  *)
(* and the mode; whatever a call left behind in memory is still there when *)
(* the next call starts.                                                   *)
(***************************************************************************)
RepeatPairs ==
    {[seq1 |-> a, seq2 |-> b] : a \in SeqsUpTo({"A", "C"}, MaxRepeatLen),
                                b \in SeqsUpTo({"A", "C"}, MaxRepeatLen)}

InitRepeat ==
    /\ batch \in {<<p>> : p \in RepeatPairs}
    /\ mode \in {"global", "local"}
    /\ model \in GapModels
    /\ InitEngine
    /\ InitUnit

\* a second call that runs on the vectors of the call before
Compute_keep_vectors ==
    /\ pc = "done"
    /\ batch' \in {<<p>> : p \in RepeatPairs}
    /\ pc' = "idle"
    /\ repeated' = TRUE
    /\ UNCHANGED unit_vars
    /\ UNCHANGED <<mode, model, garbage, sequence1, sequence2, dp_column, dp_row,
                   blk, row_offset, lane, col_k, cell_i, cache, tracker, result>>

\* compute(sequence1, sequence2): forwards to the four-argument compute with
\* dp_vector_column_t{} and dp_vector_row_t{}
Compute ==
    /\ pc = "done"
    /\ batch' \in {<<p>> : p \in RepeatPairs}
    /\ dp_column' = EmptyVector
    /\ dp_row' = EmptyVector
    /\ pc' = "idle"
    /\ repeated' = TRUE
    /\ UNCHANGED unit_vars
    /\ UNCHANGED <<mode, model, garbage, sequence1, sequence2, blk, row_offset,
                   lane, col_k, cell_i, cache, tracker, result>>

NextRepeat ==
    \/ Next
    \/ Compute

SpecRepeat == InitRepeat /\ [][NextRepeat]_vars

(***************************************************************************)
(* row_at(index) of the saturated column on its own                        *)
(* (dp_matrix_column_saturated.hpp), statement by statement, over a column *)
(* of two blocks and a row of two cells in one lane, followed by the       *)
(* kernel's sweep of the block's first column.  The block refers to the    *)
(* column segment and to the row, it holds no copies of them.              *)
(***************************************************************************)
RowAtValues == {<<0>>, <<120>>, <<MIN_B>>}
RowAtCells == {Cell(m, <<-3>>) : m \in RowAtValues}
RowAtVectors(sizes, is_row) ==
    {[cells |-> c, _offset |-> <<0>>, _saturated_zero_offset |-> <<16>>,
      is_row |-> is_row] : c \in UNION {[0..(n - 1) -> RowAtCells] : n \in sizes}}
NoBlock == [made |-> FALSE, tracker_offset |-> <<0>>]

InitRowAt ==
    /\ InitEngine
    /\ batch = <<>>
    /\ mode = "global"
    /\ model = DnaModel
    /\ upc = "call"
    /\ before = NoUnit
    /\ unit \in {[kind |-> "row_at", ndebug |-> nd, index |-> 0,
                   dp_column |-> [b \in 0..1 |-> IF b = 0 THEN c0 ELSE c1],
                   dp_row |-> r, block |-> NoBlock, cache |-> NoCache,
                   cell_i |-> 0, computed |-> 0] :
                     nd \in BOOLEAN,
                     c0 \in RowAtVectors(1..MaxVecLen, FALSE),
                     c1 \in RowAtVectors(1..MaxVecLen, FALSE),
                     r \in RowAtVectors({2}, TRUE)}

\* update_offset() of the wrapper over vec: [ok, vec]; ok is false when the
\* assertion on the check fails
update_offset(vec, ndebug) ==
    LET new_offset == vec.cells[is_row_cell_v(vec)].m
    IN IF ~ndebug /\ ~check_saturated_arithmetic(vec, new_offset)
       THEN [ok |-> FALSE, vec |-> vec]
       ELSE [ok |-> TRUE, vec |-> update_offset_impl(vec, new_offset)]

\* dp_wrapper_t saturated_column{dp_column()[index]};
\* saturated_column.update_offset();
RowAtColumnUpdateOffset ==
    /\ upc = "call"
    /\ unit.kind = "row_at"
    /\ LET r == update_offset(unit.dp_column[unit.index], unit.ndebug)
       IN /\ unit' = [unit EXCEPT !.dp_column[unit.index] = r.vec,
                                  !.block = NoBlock, !.cell_i = 0, !.computed = 0]
          /\ upc' = IF r.ok THEN "column_rebased" ELSE "aborted"
    /\ before' = unit
    /\ UNCHANGED engine_vars

\* dp_row().update_offset();
RowAtRowUpdateOffset ==
    /\ upc = "column_rebased"
    /\ LET r == update_offset(unit.dp_row, unit.ndebug)
       IN /\ unit' = [unit EXCEPT !.dp_row = r.vec]
          /\ upc' = IF r.ok THEN "row_rebased" ELSE "aborted"
    /\ UNCHANGED before
    /\ UNCHANGED engine_vars

\* make_matrix_block with the offset the row had when row_at was entered
RowAtMakeBlock_offset_at_entry ==
    /\ upc = "row_rebased"
    /\ unit' = [unit EXCEPT !.block = [made |-> TRUE,
                                       tracker_offset |-> before.dp_row._offset]]
    /\ upc' = "block"
    /\ UNCHANGED before
    /\ UNCHANGED engine_vars

\* return make_matrix_block(saturated_column, dp_row(), ...,
\*                          tracker().in_block_tracker(dp_row().offset()));
RowAtMakeBlock ==
    /\ upc = "row_rebased"
    /\ unit' = [unit EXCEPT !.block = [made |-> TRUE,
                                       tracker_offset |-> unit.dp_row._offset]]
    /\ upc' = "block"
    /\ UNCHANGED before
    /\ UNCHANGED engine_vars

\* the kernel on the block: initialise_column on the row cell and the head of
\* the column segment
BlockInitialiseColumn ==
    /\ upc = "block"
    /\ unit.cell_i = 0
    /\ LET r == initialise_column("narrow", model, unit.dp_row.cells[1],
                                  unit.dp_column[unit.index].cells[0])
       IN unit' = [unit EXCEPT !.cache = r.cache,
                               !.dp_column[unit.index].cells[0] = r.column_cell,
                               !.cell_i = 1]
    /\ UNCHANGED <<upc, before>>
    /\ UNCHANGED engine_vars

\* compute_cell on the next cell of the column segment
BlockComputeCell ==
    /\ upc = "block"
    /\ unit.cell_i > 0
    /\ unit.cell_i < Size(unit.dp_column[unit.index].cells)
    /\ LET r == compute_cell("narrow", model, unit.cache,
                             unit.dp_column[unit.index].cells[unit.cell_i],
                             <<model.match>>)
       IN unit' = [unit EXCEPT !.cache = r.cache,
                               !.dp_column[unit.index].cells[unit.cell_i] = r.column_cell,
                               !.cell_i = unit.cell_i + 1,
                               !.computed = unit.computed + 1]
    /\ UNCHANGED <<upc, before>>
    /\ UNCHANGED engine_vars

\* finalise_column, then the driver goes on to the next block or returns
BlockFinaliseColumn ==
    /\ upc = "block"
    /\ unit.cell_i = Size(unit.dp_column[unit.index].cells)
    /\ unit' = [unit EXCEPT
                   !.dp_row.cells[1] =
                       finalise_column(
                           unit.dp_column[unit.index].cells[unit.cell_i - 1],
                           unit.cache),
                   !.index = IF unit.index = 0 THEN 1 ELSE unit.index]
    /\ upc' = IF unit.index = 0 THEN "call" ELSE "returned"
    /\ UNCHANGED before
    /\ UNCHANGED engine_vars

NextRowAt ==
    \/ RowAtColumnUpdateOffset
    \/ RowAtRowUpdateOffset
    \/ RowAtMakeBlock
    \/ BlockInitialiseColumn
    \/ BlockComputeCell
    \/ BlockFinaliseColumn

SpecRowAt == InitRowAt /\ [][NextRowAt]_vars

(***************************************************************************)
(* The lane over any row and any row offset, last or not, its cached cells *)
(* written while it is live (dp_matrix_lane.hpp).  The cache is a          *)
(* std::array of LaneWidth cells and the row a vector: an access past the  *)
(* end of either is undefined behaviour, after which the lane is taken to  *)
(* have faulted or to have gone on with whatever it read or overwrote.     *)
(***************************************************************************)
\* the loop indices i the constructor or destructor executes, up to and
\* including the first one whose access is out of bounds.  The last lane
\* runs i < row.size() - _row_offset in size_t: the difference wraps to a
\* value beyond every index when _row_offset > row.size().
lane_loop_indices(row, _row_offset, is_last_lane) ==
    LET wrapped == Size(row) < _row_offset
        runs(i) == IF is_last_lane
                   THEN wrapped \/ i < Size(row) - _row_offset
                   ELSE i < LaneWidth
        in_bounds(i) == i < LaneWidth /\ i + _row_offset < Size(row)
    IN {i \in 0..(Size(row) + LaneWidth) :
            runs(i) /\ \A j \in 0..(i - 1) : in_bounds(j)}

\* the cache and row indices those iterations access
lane_accesses(row, _row_offset, is_last_lane) ==
    LET indices == lane_loop_indices(row, _row_offset, is_last_lane)
    IN [cache |-> indices, row |-> {i + _row_offset : i \in indices}]

\* some access is past the end of the cache or of the row
lane_undefined(row, _row_offset, is_last_lane) ==
    \E i \in lane_loop_indices(row, _row_offset, is_last_lane) :
        i >= LaneWidth \/ i + _row_offset >= Size(row)

\* what the kernel leaves in a cached cell
WrittenCell == Cell(<<9>>, <<-9>>)
NoAccess == [cache |-> {}, row |-> {}]

InitWindow ==
    /\ InitEngine
    /\ batch = <<>>
    /\ mode = "global"
    /\ model = DnaModel
    /\ upc = "call"
    /\ before = NoUnit
    /\ unit \in {[kind |-> "window", row |-> r, row_offset |-> a,
                   is_last_lane |-> l, lane |-> NoLane, loaded |-> NoAccess,
                   stored |-> NoAccess, written |-> {}, outcome |-> "defined"] :
                     r \in Rows, a \in 0..MaxRowLen, l \in BOOLEAN}

\* constructor: _row_offset{row_offset + 1}, then unroll_load or the loop
WindowLoad ==
    /\ upc = "call"
    /\ unit.kind = "window"
    /\ LET _row_offset == lane_row_offset(unit.row_offset)
       IN IF lane_undefined(unit.row, _row_offset, unit.is_last_lane)
          THEN /\ upc' = "undefined"
               /\ \E o \in {"fault", "garbage"} :
                     unit' = [unit EXCEPT
                                 !.loaded = lane_accesses(unit.row, _row_offset,
                                                          unit.is_last_lane),
                                 !.outcome = o]
          ELSE /\ upc' = "live"
               /\ unit' = [unit EXCEPT
                              !.lane = lane_construct(unit.row, unit.row_offset,
                                                      unit.is_last_lane, 1),
                              !.loaded = lane_accesses(unit.row, _row_offset,
                                                       unit.is_last_lane)]
    /\ before' = unit
    /\ UNCHANGED engine_vars

\* the kernel writes a cell of row(), the cached row
WindowWrite ==
    /\ upc = "live"
    /\ unit.kind = "window"
    /\ \E i \in (0..(LaneWidth - 1)) \ unit.written :
          unit' = [unit EXCEPT !.lane._cached_row[i] = WrittenCell,
                               !.written = unit.written \cup {i}]
    /\ UNCHANGED <<upc, before>>
    /\ UNCHANGED engine_vars

\* destructor: unroll_store or the loop.  A lane that was constructed
\* within bounds is destroyed within bounds: same row, same _row_offset.
WindowStore ==
    /\ upc = "live"
    /\ unit.kind = "window"
    /\ unit' = [unit EXCEPT
                   !.row = lane_destroy(unit.row, unit.lane),
                   !.stored = lane_accesses(unit.row, unit.lane._row_offset,
                                            unit.is_last_lane),
                   !.lane = NoLane]
    /\ before' = unit
    /\ upc' = "returned"
    /\ UNCHANGED engine_vars

NextWindow ==
    \/ WindowLoad
    \/ WindowWrite
    \/ WindowStore

SpecWindow == InitWindow /\ [][NextWindow]_vars

(***************************************************************************)
(* The kernel's sweep of two consecutive columns of a block on its own     *)
(* (affine_dp_algorithm): initialise_column on the row cell of the column  *)
(* and the head of the column segment, compute_cell down the segment,      *)
(* finalise_column on the row cell.                                        *)
(***************************************************************************)
SweepCellValues == {Cell(<<m>>, <<v>>) : m \in {0, 3, -5}, v \in {-7, -2}}
\* the row: cell 0, which no lane loads, and the cells of the two columns
SweepRows ==
    {[k \in 0..2 |-> IF k = 0 THEN Cell(<<m>>, <<0>>) ELSE r[k]] :
        m \in {0, 3, -5}, r \in [1..2 -> SweepCellValues]}
\* the column segment: its head and the cells the kernel computes
SweepSegments == UNION {[0..(n - 1) -> SweepCellValues] : n \in 2..MaxVecLen}

InitSweep ==
    /\ InitEngine
    /\ batch = <<>>
    /\ mode = "global"
    /\ model = DnaModel
    /\ upc = "call"
    /\ before = NoUnit
    /\ unit \in {[kind |-> "sweep", row |-> r, entry_row |-> r, column |-> c,
                   j |-> 1, cache |-> NoCache, cell_i |-> 0] :
                     r \in SweepRows, c \in SweepSegments}

SweepInitialiseColumn ==
    /\ upc = "call"
    /\ unit.kind = "sweep"
    /\ LET r == initialise_column("wide", model, unit.row[unit.j], unit.column[0])
       IN unit' = [unit EXCEPT !.cache = r.cache,
                               !.column[0] = r.column_cell,
                               !.cell_i = 1]
    /\ before' = unit
    /\ upc' = "initialised"
    /\ UNCHANGED engine_vars

SweepComputeCell ==
    /\ upc \in {"initialised", "computing"}
    /\ unit.kind = "sweep"
    /\ unit.cell_i < Size(unit.column)
    /\ LET r == compute_cell("wide", model, unit.cache, unit.column[unit.cell_i],
                             <<model.match>>)
       IN unit' = [unit EXCEPT !.cache = r.cache,
                               !.column[unit.cell_i] = r.column_cell,
                               !.cell_i = unit.cell_i + 1]
    /\ upc' = "computing"
    /\ UNCHANGED before
    /\ UNCHANGED engine_vars

SweepFinaliseColumn ==
    /\ upc = "computing"
    /\ unit.kind = "sweep"
    /\ unit.cell_i = Size(unit.column)
    /\ unit' = [unit EXCEPT
                   !.row[unit.j] = finalise_column(unit.column[unit.cell_i - 1],
                                                   unit.cache),
                   !.j = IF unit.j = 1 THEN 2 ELSE unit.j]
    /\ before' = unit
    /\ upc' = IF unit.j = 1 THEN "call" ELSE "returned"
    /\ UNCHANGED engine_vars

NextSweep ==
    \/ SweepInitialiseColumn
    \/ SweepComputeCell
    \/ SweepFinaliseColumn

SpecSweep == InitSweep /\ [][NextSweep]_vars

(***************************************************************************)
(* The lanes of one row, one after another (dp_matrix_lane.hpp): a lane is *)
(* constructed at row offset 0, the kernel writes its cached cells, it is  *)
(* destroyed, and the next is constructed LaneWidth further on.  A lane     *)
(* that has more than LaneWidth cells left to cover is not the last, one   *)
(* that has fewer is the last; with exactly LaneWidth cells left either    *)
(* the lane is the last, or it is not and an empty last lane follows.      *)
(***************************************************************************)
InitLanes ==
    /\ InitEngine
    /\ batch = <<>>
    /\ mode = "global"
    /\ model = DnaModel
    /\ upc = "call"
    /\ before = NoUnit
    /\ unit \in {[kind |-> "lanes", row |-> r, entry_row |-> r, row_offset |-> 0,
                   lane |-> NoLane, windows |-> <<>>, written |-> FALSE] :
                     r \in Rows}

\* the cells of the row the lane at row_offset has left to cover
LanesLeft == Size(unit.row) - 1 - unit.row_offset

LanesConstruct ==
    /\ upc = "call"
    /\ unit.kind = "lanes"
    /\ \E is_last_lane \in BOOLEAN :
          /\ LanesLeft > LaneWidth => ~is_last_lane
          /\ LanesLeft < LaneWidth => is_last_lane
          /\ LET l == lane_construct(unit.row, unit.row_offset, is_last_lane, 1)
             IN unit' = [unit EXCEPT
                            !.lane = l,
                            !.written = FALSE,
                            !.windows = Append(unit.windows,
                                lane_accesses(unit.row,
                                              lane_row_offset(unit.row_offset),
                                              is_last_lane).row)]
    /\ before' = unit
    /\ upc' = "live"
    /\ UNCHANGED engine_vars

\* the kernel sweeps the columns of the lane: every cached cell the lane
\* holds is written
LanesSweep ==
    /\ upc = "live"
    /\ unit.kind = "lanes"
    /\ ~unit.written
    /\ LET end_index == lane_end_index(unit.row, unit.lane._row_offset,
                                       unit.lane.is_last_lane)
       IN unit' = [unit EXCEPT
                      !.lane._cached_row =
                          [i \in DOMAIN unit.lane._cached_row |->
                              IF i < end_index THEN WrittenCell
                              ELSE unit.lane._cached_row[i]],
                      !.written = TRUE]
    /\ UNCHANGED <<upc, before>>
    /\ UNCHANGED engine_vars

LanesDestroy ==
    /\ upc = "live"
    /\ unit.kind = "lanes"
    /\ unit.written
    /\ unit' = [unit EXCEPT
                   !.row = lane_destroy(unit.row, unit.lane),
                   !.row_offset = IF unit.lane.is_last_lane THEN unit.row_offset
                                  ELSE unit.row_offset + LaneWidth]
    /\ before' = unit
    /\ upc' = IF unit.lane.is_last_lane THEN "returned" ELSE "call"
    /\ UNCHANGED engine_vars

NextLanes ==
    \/ LanesConstruct
    \/ LanesSweep
    \/ LanesDestroy

SpecLanes == InitLanes /\ [][NextLanes]_vars

(***************************************************************************)
(* simd_intermediate_dp_vector::initialise on its own                      *)
(* (pairwise_aligner.hpp), read by read, on a batch of two optional        *)
(* sequences.  Dereferencing an optional without a value, or reading a     *)
(* sequence past its end, is undefined behaviour: the read faults or       *)
(* yields some byte.                                                       *)
(***************************************************************************)
NoSequence == [has_value |-> FALSE, value |-> <<>>]
OptionalSequences ==
    {NoSequence} \cup {[has_value |-> TRUE, value |-> s] :
                          s \in SeqsUpTo({"A", "C"}, MaxPackLen)}

\* the first loop: the longest sequence among those that have a value
optional_max_sequence_size(sequence) ==
    LET lens == {0} \cup {Len(sequence[i].value) :
                             i \in {k \in DOMAIN sequence : sequence[k].has_value}}
    IN CHOOSE n \in lens : \A q \in lens : q <= n

InitPack ==
    /\ InitEngine
    /\ batch = <<>>
    /\ mode = "global"
    /\ model = DnaModel
    /\ upc = "call"
    /\ before = NoUnit
    /\ unit \in {[kind |-> "pack", sequence |-> <<p, q>>, max_sequence_size |-> 0,
                   simd_sequence |-> <<>>, dp_size |-> 0, i |-> 1, j |-> 1,
                   reads |-> {}] :
                     p \in OptionalSequences, q \in OptionalSequences}

\* max_sequence_size, simd_sequence.resize(max_sequence_size) and
\* _underlying_dp_vector.initialise(simd_sequence, init_strategy)
PackResize ==
    /\ upc = "call"
    /\ unit.kind = "pack"
    /\ LET n == optional_max_sequence_size(unit.sequence)
           packed == [j \in 1..n |-> [i \in DOMAIN unit.sequence |-> "0"]]
       IN unit' = [unit EXCEPT
                      !.max_sequence_size = n,
                      !.simd_sequence = packed,
                      !.dp_size = Size(intermediate_dp_vector_initialise(
                                           packed, mode, model, Len(unit.sequence)))]
    /\ before' = unit
    /\ upc' = "filling"
    /\ UNCHANGED engine_vars

\* simd_sequence[j][i] = it[j] with it = begin(*(sequence[i]))
PackRead ==
    /\ upc = "filling"
    /\ unit.kind = "pack"
    /\ unit.i <= Len(unit.sequence)
    /\ unit.j <= unit.max_sequence_size
    /\ LET s == unit.sequence[unit.i]
           next_i == IF unit.j = unit.max_sequence_size THEN unit.i + 1 ELSE unit.i
           next_j == IF unit.j = unit.max_sequence_size THEN 1 ELSE unit.j + 1
           stored(byte) ==
               [unit EXCEPT !.simd_sequence[unit.j][unit.i] = byte,
                            !.reads = unit.reads \cup {<<unit.i, unit.j>>},
                            !.i = next_i, !.j = next_j]
       IN IF s.has_value /\ unit.j <= Len(s.value)
          THEN /\ unit' = stored(s.value[unit.j])
               /\ upc' = upc
          ELSE \/ /\ unit' = [unit EXCEPT
                                 !.reads = unit.reads \cup {<<unit.i, unit.j>>}]
                  /\ upc' = "undefined"
               \/ /\ \E byte \in {"A", "C"} : unit' = stored(byte)
                  /\ upc' = upc
    /\ UNCHANGED before
    /\ UNCHANGED engine_vars

\* return simd_sequence
PackReturn ==
    /\ upc = "filling"
    /\ unit.kind = "pack"
    /\ unit.i > Len(unit.sequence) \/ unit.max_sequence_size = 0
    /\ upc' = "returned"
    /\ UNCHANGED <<unit, before>>
    /\ UNCHANGED engine_vars

NextPack ==
    \/ PackResize
    \/ PackRead
    \/ PackReturn

SpecPack == InitPack /\ [][NextPack]_vars

(***************************************************************************)
(* Construction of the rank map and of the linearised substitution matrix  *)
(* (the score-model configurator), one loop iteration per step.  The loop  *)
(* counter is a uint8_t; it is compared against the dimension, a size_t.   *)
(***************************************************************************)
\* number of values of a uint8_t, and size of symbol_rank_map_t
RankRange == 256
\* largest of the small alphabet dimensions enumerated
MaxSmallDimension == 3
\* the alphabet dimensions D enumerated: small ones and the two largest
Dimensions == (1..MaxSmallDimension) \cup {RankRange - 1, RankRange}
\* byte of the first matrix symbol ("A" = 65, or 0): the symbols of the
\* matrix are the consecutive bytes from there on
FirstSymbols == {0, 65}

\* static_cast<uint8_t>(substitution_matrix[rank].first)
matrix_symbol(first, rank) == (first + rank) % RankRange

\* ++rank on a 7-bit counter
increment_rank_narrow(rank) == (rank + 1) % (RankRange \div 2)
\* ++rank on a uint8_t
increment_rank(rank) == (rank + 1) % RankRange

InitRankMap ==
    /\ InitEngine
    /\ batch = <<>>
    /\ mode = "global"
    /\ model = DnaModel
    /\ upc = "call"
    /\ before = NoUnit
    /\ unit \in {[kind |-> "rankmap", dimension |-> d, first |-> f, rank |-> 0,
                   symbol_to_rank_map |-> [b \in 0..(RankRange - 1) |-> 0],
                   rows |-> {}] :
                     d \in Dimensions, f \in FirstSymbols}

\* symbol_to_rank_map.fill(255) and the loop's initialisation
RankMapFill ==
    /\ upc = "call"
    /\ unit.kind = "rankmap"
    /\ unit' = [unit EXCEPT
                   !.symbol_to_rank_map = [b \in 0..(RankRange - 1) |-> InvalidRank],
                   !.rank = 0]
    /\ before' = unit
    /\ upc' = "looping"
    /\ UNCHANGED engine_vars

\* one iteration: the rank of the symbol, the row copied to
\* linear_matrix.data() + rank * dimension, then ++rank
RankMapStep ==
    /\ upc = "looping"
    /\ unit.kind = "rankmap"
    /\ unit.rank < unit.dimension
    /\ unit' = [unit EXCEPT
                   !.symbol_to_rank_map[matrix_symbol(unit.first, unit.rank)] =
                       unit.rank,
                   !.rows = unit.rows \cup {unit.rank},
                   !.rank = increment_rank(unit.rank)]
    /\ UNCHANGED <<upc, before>>
    /\ UNCHANGED engine_vars

\* the loop condition fails: the traits are built and returned
RankMapReturn ==
    /\ upc = "looping"
    /\ unit.kind = "rankmap"
    /\ ~(unit.rank < unit.dimension)
    /\ upc' = "built"
    /\ UNCHANGED <<unit, before>>
    /\ UNCHANGED engine_vars

NextRankMap ==
    \/ RankMapFill
    \/ RankMapStep
    \/ RankMapReturn

\* the construction is straight-line sequential code: a step that can be
\* taken is taken
SpecRankMap == InitRankMap /\ [][NextRankMap]_vars /\ WF_vars(NextRankMap)

(***************************************************************************)
(* Reference: the textbook affine-gap dynamic program (Gotoh), row by row, *)
(* a gap of length k costing gap_open + k * gap_extend.  Written           *)
(* independently of the kernel: it compares symbols directly and keeps a   *)
(* full (m, v) row and a running h.                                        *)
(***************************************************************************)
RefMinusInfinity == -(1000 * 1000)

RefSubstitution(g, x, y) == IF x = y THEN g.match ELSE g.mismatch

\* the cells 0..j of row i >= 1, as a sequence of records (index j + 1), from
\* the full previous row
RECURSIVE RefRow(_, _, _, _, _, _)
RefRow(local, g, a, b, i, prev) ==
    LET open == g.gap_open_score + g.gap_extension_score
        ext == g.gap_extension_score
        first == [m |-> IF local THEN 0 ELSE g.gap_open_score + i * ext,
                  h |-> RefMinusInfinity, v |-> RefMinusInfinity]
        RECURSIVE Fill(_, _)
        Fill(j, acc) ==
            IF j > Len(b) THEN acc
            ELSE LET left == acc[j]
                     h == Max(left.h + ext, left.m + open)
                     v == Max(prev[j + 1].v + ext, prev[j + 1].m + open)
                     d == prev[j].m + RefSubstitution(g, a[i], b[j])
                     m == Max(Max(d, h), Max(v, IF local THEN 0 ELSE d))
                 IN Fill(j + 1, Append(acc, [m |-> m, h |-> h, v |-> v]))
    IN Fill(1, <<first>>)

RefRow0(local, g, b) ==
    [j \in 1..(Len(b) + 1) |->
        [m |-> IF local \/ j = 1 THEN 0
               ELSE g.gap_open_score + (j - 1) * g.gap_extension_score,
         h |-> RefMinusInfinity, v |-> RefMinusInfinity]]

RECURSIVE RefRows(_, _, _, _, _, _)
RefRows(local, g, a, b, i, prev) ==
    IF i > Len(a) THEN <<prev>>
    ELSE <<prev>> \o RefRows(local, g, a, b, i + 1, RefRow(local, g, a, b, i, prev))

SeqMax(s) == CHOOSE x \in {s[i] : i \in DOMAIN s} : \A i \in DOMAIN s : s[i] <= x

\* optimal global score: the bottom-right cell
RefGlobal(g, a, b) ==
    LET rows == RefRows(FALSE, g, a, b, 1, RefRow0(FALSE, g, b))
    IN rows[Len(a) + 1][Len(b) + 1].m

\* optimal local score: the maximum over all cells of the clamped matrix
RefLocal(g, a, b) ==
    LET rows == RefRows(TRUE, g, a, b, 1, RefRow0(TRUE, g, b))
    IN SeqMax([i \in DOMAIN rows |-> SeqMax([j \in DOMAIN rows[i] |-> rows[i][j].m])])

(***************************************************************************)
(* Claims on compute().                                                    *)
(***************************************************************************)
Done == pc = "done"

\* C1: in global mode compute(seq1, seq2) returns the optimal global alignment
\* score of the reference affine-gap dynamic program (a gap of length k costs
\* gap_open + k * gap_extend), for every enumerated pair of sequences and
\* scoring model, including pairs that span several lanes and blocks.
C1_GlobalScoreOptimal ==
    (Done /\ mode = "global" /\ Len(batch) = 1) =>
        result = <<RefGlobal(model, batch[1].seq1, batch[1].seq2)>>

\* a finished global alignment over two column blocks and two lanes
C1_Witness ==
    /\ Done /\ mode = "global" /\ Len(batch) = 1
    /\ Len(batch[1].seq1) > BlockHeight
    /\ Len(batch[1].seq2) > LaneWidth
    /\ blk > 0
    /\ batch[1].seq1 # batch[1].seq2

\* C2 (as claimed): in local mode compute(seq1, seq2) returns the maximum
\* score observed at any cell, clamped below at 0, and this equals the optimal
\* local alignment score of the reference affine-gap local dynamic program.
C2_LocalScoreOptimal ==
    (Done /\ mode = "local" /\ Len(batch) = 1) =>
        result = <<RefLocal(model, batch[1].seq1, batch[1].seq2)>>

\* C3: with the DNA alphabet, match +4, mismatch -2, gap_open -4 and
\* gap_extend -1, compute returns +16 for (ACGT, ACGT) global, +10 for
\* (ACGT, ACCT) global, +12 for (AAAACGTAAAA, CGT) local and +18 for
\* (TTAACCGG, AACCGG) global.
C3_Scenarios ==
    (Done /\ model = DnaModel) =>
        /\ (batch = <<Scenario1>> /\ mode = "global") => result = <<16>>
        /\ (batch = <<Scenario2>> /\ mode = "global") => result = <<10>>
        /\ (batch = <<Scenario4>> /\ mode = "local") => result = <<12>>
        /\ (batch = <<Scenario5>> /\ mode = "global") => result = <<18>>

\* the local scenario has run to its end
C3_Witness ==
    Done /\ model = DnaModel /\ batch = <<Scenario4>> /\ mode = "local"
         /\ result = <<12>>

\* the number of cells of the row vector and of the column vector
RowSize == Size(dp_row)
ColumnCells == IF Size(dp_column) = 0 THEN 0
               ELSE Size(dp_column[Size(dp_column) - 1])
                    + (Size(dp_column) - 1) * BlockHeight

\* C4: when either input sequence is empty, compute does not fail: the DP
\* vector of the empty sequence is initialised with exactly one cell, every
\* step of the call up to its return is enabled, and (ACGT, empty) in
\* global mode returns -8 = gap_open + 4 * gap_extend.
C4_EmptyInput ==
    (Len(batch) = 1 /\ (batch[1].seq1 = <<>> \/ batch[1].seq2 = <<>>)) =>
        /\ (pc # "idle" /\ batch[1].seq2 = <<>>) => RowSize = 1
        /\ (pc # "idle" /\ batch[1].seq1 = <<>>) => ColumnCells = 1
        /\ Done \/ ENABLED Next
        /\ Done => Len(result) = 1
        /\ (Done /\ batch = <<Scenario3>> /\ mode = "global" /\ model = DnaModel)
              => result = <<-8>>

\* the call on (ACGT, empty) has returned
C4_Witness ==
    Done /\ batch = <<Scenario3>> /\ mode = "global" /\ RowSize = 1
         /\ result = <<-8>>

\* compute() and its functional form agree on every single pair
AloneAgrees ==
    (Done /\ Len(batch) = 1) => result = <<AloneScore(mode, model, batch[1])>>

\* C8 (as claimed): in a SIMD batch of one pair per lane, the score returned
\* in lane k equals the score of computing pair k alone, for every k,
\* whatever the other pairs are, pairs of different lengths included.
C8_LaneIndependence ==
    (Done /\ Len(batch) = 2) =>
        \A k \in 1..2 : result[k] = AloneScore(mode, model, batch[k])

\* lanes of equal lengths are independent
C8_EqualLengths ==
    (Done /\ Len(batch) = 2
          /\ Len(batch[1].seq1) = Len(batch[2].seq1)
          /\ Len(batch[1].seq2) = Len(batch[2].seq2)) =>
        \A k \in 1..2 : result[k] = AloneScore(mode, model, batch[k])

(***************************************************************************)
(* Claims on the saturated wrapper.                                        *)
(***************************************************************************)
Rebased == upc = "returned" /\ unit.kind = "wrapper"
\* the pivot's score of the rebase that just ran
Delta == before.vec.cells[is_row_cell_v(before.vec)].m
\* lane k of value x of the vector before the rebase saturates in the rebase
Saturates(x, k) ==
    expected_score(before.vec, x, Delta)[k] # real_score(before.vec, x, Delta)[k]
LogicalBefore(i, k) == before.vec.cells[i].m[k] + before.vec._offset[k]
LogicalAfter(i, k) == unit.vec.cells[i].m[k] + unit.vec._offset[k]

\* C5 (as claimed): for every vector state and every rebase step, on a column
\* or on a row, the logical score cells[i].m + offset is the same after the
\* rebase as before it, for every cell i and every lane, and the stored
\* offset becomes offset + delta - ZERO.
C5_Original ==
    Rebased =>
        /\ \A k \in 1..2 :
              unit.vec._offset[k] = before.vec._offset[k] + Delta[k]
                                      - before.vec._saturated_zero_offset[k]
        /\ \A i \in DOMAIN unit.vec.cells : \A k \in 1..2 :
              LogicalAfter(i, k) = LogicalBefore(i, k)

\* C5: for every vector state and every rebase step that completes, on a column
\* or on a row, the stored offset becomes offset + delta - ZERO, and the logical
\* score cells[i].m + offset is the same after the rebase as before it for
\* every cell i and lane k whose narrow m - delta + ZERO does not saturate.
C5_OffsetInvariance ==
    Rebased =>
        /\ \A k \in 1..2 :
              unit.vec._offset[k] = before.vec._offset[k] + Delta[k]
                                      - before.vec._saturated_zero_offset[k]
        /\ \A i \in DOMAIN unit.vec.cells : \A k \in 1..2 :
              ~Saturates(before.vec.cells[i].m, k) =>
                  LogicalAfter(i, k) = LogicalBefore(i, k)

\* a completed rebase of a row by a pivot other than ZERO that moved a cell
\* without saturating it, next to a lane that did saturate
C5_Witness ==
    /\ Rebased
    /\ before.vec.is_row
    /\ Delta[1] # before.vec._saturated_zero_offset[1]
    /\ ~Saturates(before.vec.cells[0].m, 1)
    /\ unit.vec.cells[0].m[1] # before.vec.cells[0].m[1]
    /\ \E i \in DOMAIN before.vec.cells : Saturates(before.vec.cells[i].m, 2)

\* update_offset() has run, to its return or to the failed assertion
Checked == upc \in {"returned", "aborted"} /\ unit.kind = "wrapper"

\* C6 (as claimed): for every vector state and pivot, if for some cell i
\* (i = 0 included), some component m or v and some lane the narrow result of
\* cell - delta + ZERO differs from the widened one, the saturation-rebase
\* error fires for that rebase.
C6_Original ==
    Checked =>
        ((\E i \in DOMAIN before.vec.cells : \E k \in 1..2 :
              Saturates(before.vec.cells[i].m, k) \/ Saturates(before.vec.cells[i].v, k))
         => (upc = "aborted" /\ unit.check = "failed"))

\* C6: in a build with assertions, for every vector state and pivot, if for
\* some cell i the score m, or for some cell i > 0 the gap score v, differs in
\* some lane between the narrow cell - delta + ZERO and the widened one, the
\* check reports failure and the rebase is not carried out.
C6_SaturationSoundness ==
    (Checked /\ ~unit.ndebug) =>
        ((\E i \in DOMAIN before.vec.cells : \E k \in 1..2 :
              \/ Saturates(before.vec.cells[i].m, k)
              \/ (i > 0 /\ Saturates(before.vec.cells[i].v, k)))
         => (upc = "aborted" /\ unit.check = "failed" /\ unit.vec = before.vec))

\* the check failed on the gap score of a cell i > 0 in the second lane alone
C6_Witness ==
    /\ Checked /\ ~unit.ndebug /\ upc = "aborted"
    /\ \A i \in DOMAIN before.vec.cells : \A k \in 1..2 :
          ~Saturates(before.vec.cells[i].m, k)
    /\ \A i \in DOMAIN before.vec.cells : ~Saturates(before.vec.cells[i].v, 1)
    /\ \E i \in DOMAIN before.vec.cells : i > 0 /\ Saturates(before.vec.cells[i].v, 2)

\* every lane of every stored value of the rebased vector lies in [lo, hi],
\* the bounds given per lane
StoredWithin(lo, hi) ==
    \A i \in DOMAIN unit.vec.cells : \A k \in 1..2 :
        /\ lo[k] <= unit.vec.cells[i].m[k] /\ unit.vec.cells[i].m[k] <= hi[k]
        /\ lo[k] <= unit.vec.cells[i].v[k] /\ unit.vec.cells[i].v[k] <= hi[k]

C15_Original ==
    Rebased =>
        \A k \in 1..2 :
            unit.vec._offset[k] = before.vec._offset[k] + before.vec.cells[0].m[k]
                                    - before.vec._saturated_zero_offset[k]

\* C15: in every rebase the pivot whose m is taken as delta is cell 0 of a
\* vector of column cells and cell 1 of a vector of row cells: the stored
\* offset moves by that cell's score less ZERO, and that cell's score is ZERO
\* afterwards.
C15_Pivot ==
    Rebased =>
        LET pivot == IF before.vec.is_row THEN 1 ELSE 0
        IN \A k \in 1..2 :
              /\ unit.vec._offset[k] =
                     before.vec._offset[k] + before.vec.cells[pivot].m[k]
                         - before.vec._saturated_zero_offset[k]
              /\ unit.vec.cells[pivot].m[k] = before.vec._saturated_zero_offset[k]

\* a row whose cells 0 and 1 hold different scores has been rebased
C15_Witness ==
    /\ Rebased /\ before.vec.is_row
    /\ before.vec.cells[0].m[1] # before.vec.cells[1].m[1]
    /\ unit.vec._offset[1] = before.vec._offset[1] + before.vec.cells[1].m[1]
                               - before.vec._saturated_zero_offset[1]

\* C16 (as claimed): the overflow check runs on every rebase: no call of
\* update_offset modifies the cells without the check having run.
C16_Original ==
    (Checked /\ unit.vec # before.vec) => unit.check # "none"

\* C16: in a build with assertions every call of update_offset evaluates the
\* check on the cells as they are before the rebase, and modifies the cells
\* and the offset only after the check has passed; in a build without
\* assertions the check is not evaluated.
C16_CheckBeforeRebase ==
    Checked =>
        /\ ~unit.ndebug =>
              /\ unit.check \in {"passed", "failed"}
              /\ unit.check = "passed" <=> check_saturated_arithmetic(before.vec, Delta)
              /\ unit.check = "passed" <=> upc = "returned"
              /\ unit.check = "failed" => unit.vec = before.vec
        /\ unit.ndebug => (unit.check = "none" /\ upc = "returned")

\* in a build with assertions a rebase passed the check and moved the cells,
\* which after it would no longer pass the check with the same pivot score
C16_Witness ==
    /\ Checked /\ ~unit.ndebug /\ unit.check = "passed"
    /\ unit.vec.cells # before.vec.cells
    /\ ~check_saturated_arithmetic(unit.vec, Delta)

\* the column segment and the row as row_at(index) found them, and as their
\* rebases leave them
EntryColumn == before.dp_column[unit.index]
EntryRow == before.dp_row
RebasedColumn == update_offset_impl(EntryColumn, EntryColumn.cells[0].m)
RebasedRow == update_offset_impl(EntryRow, EntryRow.cells[1].m)

\* C17: for every block index i, the saturated row_at(i) first rebases column
\* segment i, then rebases the row, and only then produces the block; no
\* kernel cell update of block i happens before both rebases, and the block's
\* tracker slot is created with the row's offset as it stands after that
\* rebase.
C17_RowAtOrder ==
    unit.kind = "row_at" =>
        /\ upc = "column_rebased" =>
              /\ unit.dp_column[unit.index] = RebasedColumn
              /\ unit.dp_row = EntryRow
        /\ upc = "row_rebased" =>
              /\ unit.dp_column[unit.index] = RebasedColumn
              /\ unit.dp_row = RebasedRow
        /\ upc \in {"column_rebased", "row_rebased", "aborted"} =>
              (~unit.block.made /\ unit.cell_i = 0 /\ unit.computed = 0)
        /\ (upc = "block" /\ unit.cell_i = 0) =>
              /\ unit.dp_column[unit.index] = RebasedColumn
              /\ unit.dp_row = RebasedRow
        /\ upc = "block" =>
              /\ unit.block.made
              /\ unit.block.tracker_offset = RebasedRow._offset

\* the kernel has updated a cell of the second block, whose row_at moved both
\* the column segment and the offset of the row
C17_Witness ==
    /\ unit.kind = "row_at" /\ upc = "block"
    /\ unit.index = 1 /\ unit.computed > 0
    /\ RebasedColumn.cells # EntryColumn.cells
    /\ RebasedRow._offset # EntryRow._offset
    /\ unit.block.tracker_offset = RebasedRow._offset

\* C21: after every rebase whose overflow check passed, the stored m of the
\* pivot cell equals ZERO in every SIMD lane, and the vector's size is
\* unchanged.
C21_PivotAtZero ==
    (Rebased /\ check_saturated_arithmetic(before.vec, Delta)) =>
        /\ unit.vec.cells[is_row_cell_v(before.vec)].m
               = before.vec._saturated_zero_offset
        /\ Size(unit.vec.cells) = Size(before.vec.cells)
        /\ DOMAIN unit.vec.cells = DOMAIN before.vec.cells

\* a column of two cells whose pivot held a score other than ZERO in both
\* lanes has been rebased in a build with assertions, the check passing
C21_Witness ==
    /\ Rebased /\ ~unit.ndebug /\ unit.check = "passed"
    /\ ~before.vec.is_row
    /\ Size(before.vec.cells) = MaxVecLen
    /\ before.vec._saturated_zero_offset = <<16, 16>>
    /\ \A k \in 1..2 : before.vec.cells[0].m[k] # 16
    /\ unit.vec.cells[0].m = <<16, 16>>

KernelAdd(a, b) == ScalarAdd(before.score_t, a, b)

\* C10: for every cell update compute_cell(cache = (diag_in, h_in),
\* col_cell = (m_prev, v_prev), s), with + the addition of the score type
\* (saturating in the narrow type): m_new = max(diag_in + s, h_in, v_prev);
\* col_cell.m = m_new; cache.h_in = max(h_in + ge, m_new + (go + ge));
\* col_cell.v = max(v_prev + ge, m_new + (go + ge)); cache.diag_in = m_prev.
C10_AffineRecurrence ==
    (unit.kind = "kernel" /\ upc = "returned") =>
        LET diag_in == before.cache.first[1]
            h_in == before.cache.second[1]
            m_prev == before.column_cell.m[1]
            v_prev == before.column_cell.v[1]
            go == before.gap.gap_open_score
            ge == before.gap.gap_extension_score
            m_new == Max(Max(KernelAdd(diag_in, before.s[1]), h_in), v_prev)
            open == KernelAdd(m_new, go + ge)
        IN /\ unit.column_cell.m[1] = m_new
           /\ unit.cache.second[1] = Max(KernelAdd(h_in, ge), open)
           /\ unit.column_cell.v[1] = Max(KernelAdd(v_prev, ge), open)
           /\ unit.cache.first[1] = m_prev
           /\ before.score_t = "wide" =>
                 /\ m_new = Max(Max(diag_in + before.s[1], h_in), v_prev)
                 /\ unit.column_cell.v[1] = Max(v_prev + ge, m_new + go + ge)
                 /\ unit.cache.second[1] = Max(h_in + ge, m_new + go + ge)

\* a narrow cell update in which the diagonal wins and opening a gap beats
\* extending one
C10_Witness ==
    /\ unit.kind = "kernel" /\ upc = "returned"
    /\ before.score_t = "narrow"
    /\ unit.column_cell.m[1] = before.cache.first[1] + before.s[1]
    /\ unit.column_cell.m[1] > before.cache.second[1]
    /\ unit.column_cell.m[1] > before.column_cell.v[1]
    /\ unit.column_cell.v[1] > before.column_cell.v[1] + before.gap.gap_extension_score
    /\ unit.cache.first[1] # before.cache.first[1]

(***************************************************************************)
(* Claims on the lane profile.                                             *)
(***************************************************************************)
\* the row of the substitution matrix whose symbol is sym
MatrixRowOf(matrix, sym) == CHOOSE r \in DOMAIN matrix : matrix[r].first = sym

\* C11: the profile a lane builds at construction from its row sequence slice
\* holds, for every column symbol c and every row symbol r of the slice at
\* position j < W, the entry M[rank(c)][rank(r)] of the substitution matrix,
\* and row_sequence() returns this profile.
C11_ProfileCorrect ==
    (unit.kind = "profile" /\ upc \in {"live", "returned"}) =>
        /\ Len(unit.row_slice) <= LaneWidth
        /\ \A r \in DOMAIN unit.matrix : \A j \in 0..(Len(unit.row_slice) - 1) :
              unit._profile[MatrixRowOf(unit.matrix, unit.matrix[r].first)][j]
                  = unit.matrix[r].second[MatrixRowOf(unit.matrix,
                                                      unit.row_slice[j + 1])]
        /\ upc = "returned" => unit.returned = unit._profile

\* the profile of a full slice of two different symbols, under the matrix whose
\* ranks are not in alphabet order, has been handed out
C11_Witness ==
    /\ unit.kind = "profile" /\ upc = "returned"
    /\ Len(unit.row_slice) = LaneWidth
    /\ unit.row_slice[1] # unit.row_slice[2]
    /\ unit.matrix[0].first = "T"
    /\ unit.returned[1][0] # unit.returned[0][1]

(***************************************************************************)
(* Claims on invalid symbols and on repeated calls.                        *)
(***************************************************************************)
\* C12 (as claimed): if a sequence passed to compute contains a byte that has
\* no rank in the rank map, the alignment is aborted and no score is returned
\* for that call.
C12_InvalidSymbolAborts ==
    (Len(batch) = 1 /\ (HasInvalidByte(batch[1].seq1) \/ HasInvalidByte(batch[1].seq2)))
        => ~(Done /\ Len(result) = 1)

Window == unit.kind = "window"
\* the row indices first..first + LaneWidth - 1
WindowAt(first) == first..(first + LaneWidth - 1)
\* a lane that is not the last and whose W cells lie inside the row
FullLane == Window /\ ~unit.is_last_lane
                   /\ unit.row_offset + 1 + LaneWidth <= Size(unit.row)

\* the lane, just constructed, holds the W row cells first.. in its cache
LoadedFrom(first) ==
    /\ unit.loaded.cache = 0..(LaneWidth - 1)
    /\ unit.loaded.row = WindowAt(first)
    /\ \A i \in 0..(LaneWidth - 1) : unit.lane._cached_row[i] = unit.row[first + i]

\* the lane, just destroyed, has put its W cached cells into the row cells
\* first.. and left the other cells of the row alone
StoredTo(first) ==
    /\ unit.stored.cache = 0..(LaneWidth - 1)
    /\ unit.stored.row = WindowAt(first)
    /\ \A j \in DOMAIN unit.row :
          unit.row[j] = IF j \in WindowAt(first)
                        THEN before.lane._cached_row[j - first]
                        ELSE before.row[j]

\* C18 (as claimed): a lane that is not the last lane, constructed with
\* row_offset a, loads exactly W cells from the row starting at index a (row
\* cells a .. a+W-1) into its cache, and on destruction stores exactly those
\* W cache cells back to the same row indices.
C18_Original ==
    FullLane =>
        /\ (upc = "live" /\ unit.written = {}) => LoadedFrom(unit.row_offset)
        /\ upc = "returned" => StoredTo(unit.row_offset)

\* C18: a lane that is not the last lane, constructed with row_offset a,
\* loads exactly W cells from the row starting at index a + 1 (row cells
\* a+1 .. a+W) into its cache, and on destruction stores exactly those W
\* cache cells back to the same row indices.
C18_FullLaneWindow ==
    FullLane =>
        /\ (upc = "live" /\ unit.written = {}) => LoadedFrom(unit.row_offset + 1)
        /\ upc = "returned" => StoredTo(unit.row_offset + 1)

\* a lane that is not the last, over row cells that differ from their left
\* neighbours, has stored a cache the kernel wrote to
C18_Witness ==
    /\ FullLane /\ upc = "returned"
    /\ before.written = {0}
    /\ unit.row_offset > 0
    /\ before.row[unit.row_offset] # before.row[unit.row_offset + 1]
    /\ unit.row[unit.row_offset + 1] = WrittenCell
    /\ unit.row[unit.row_offset] = before.row[unit.row_offset]

\* C19 (as claimed): the last lane of a row transfers min(W, row_len -
\* row_offset) cells on load and the same number on store, for every row
\* length and every row_offset; it never reads or writes a cache index >= W
\* and never a row index >= row_len.  The lane counts from the cell after
\* the row's cell 0: row_len - row_offset is row.size() - _row_offset, and no
\* row index reaches row.size().
C19_LastLaneBounds ==
    (Window /\ unit.is_last_lane /\ upc # "call") =>
        /\ Cardinality(unit.loaded.cache) =
               Min(LaneWidth, Max(0, Size(unit.row) - (unit.row_offset + 1)))
        /\ \A i \in unit.loaded.cache \cup unit.stored.cache : i < LaneWidth
        /\ \A j \in unit.loaded.row \cup unit.stored.row : j < Size(unit.row)
        /\ upc = "returned" =>
               Cardinality(unit.stored.cache) = Cardinality(unit.loaded.cache)
        /\ unit.outcome = "defined"

(***************************************************************************)
(* Claims on the sweep of a column.                                        *)
(***************************************************************************)
Sweep == unit.kind = "sweep"
\* initialise_column has run on the column unit.j, whose kernel cells are
\* being computed
Sweeping == Sweep /\ upc \in {"initialised", "computing"}
\* finalise_column has just run on the column before.j
Finalised == Sweep /\ before # NoUnit /\ upc \in {"call", "returned"}
\* the last cell of the column segment
ColumnTail(column) == column[Size(column) - 1]

\* after the sweep finalise_column has written the column tail into the row
\* cell: row.m = m of the last column cell, row.v = the gap score of the cache
TailWrittenBack ==
    Finalised =>
        /\ unit.row[before.j] = Cell(ColumnTail(before.column).m, before.cache.second)
        /\ \A k \in DOMAIN unit.row : k # before.j => unit.row[k] = before.row[k]
        /\ unit.column = before.column

\* C20 (as claimed): initialise_column exchanges the row cell and the
\* column-head cell so that the diagonal used for the first kernel cell of
\* the sweep comes from the row vector: it is the m of the row cell handed to
\* initialise_column or of the row cell to its left, as the row stood when
\* the block was entered; finalise_column writes the column tail back into
\* the row cell.
C20_Original ==
    /\ Sweeping =>
          (unit.cell_i = 1 =>
              unit.cache.first \in {unit.entry_row[unit.j].m,
                                    unit.entry_row[unit.j - 1].m})
    /\ TailWrittenBack

\* C20: initialise_column moves the m of the row cell into the column-head
\* cell and takes the m the column head held before it as the diagonal of the
\* first kernel cell of the sweep, the v of the row cell as its horizontal gap
\* score; the m of a row cell so becomes the diagonal of the sweep of the
\* next column.  finalise_column writes the column tail back into the row
\* cell: row.m = m of the last column cell, row.v = the gap score of the
\* cache.
C20_SweepBinding ==
    /\ Sweeping =>
          /\ unit.column[0].m = before.row[unit.j].m
          /\ unit.row = before.row
          /\ unit.cell_i = 1 =>
                /\ unit.cache.first = before.column[0].m
                /\ unit.cache.second = before.row[unit.j].v
          /\ unit.j = 2 => before.column[0].m = unit.entry_row[1].m
          /\ unit.cell_i > 1 =>
                unit.column[1].m =
                    VMax(VMax(VAdd("wide", before.column[0].m, <<model.match>>),
                              before.row[unit.j].v),
                         before.column[1].v)
    /\ TailWrittenBack

\* the second column has been swept and finalised, its diagonal the m of the
\* first row cell, which differed from the m of the second and from the m of
\* the column head
C20_Witness ==
    /\ Sweep /\ upc = "returned"
    /\ unit.entry_row[1].m # unit.entry_row[2].m
    /\ unit.row[2].m = ColumnTail(before.column).m
    /\ unit.row[2] # unit.entry_row[2]
    /\ unit.row[1] # unit.entry_row[1]

(***************************************************************************)
(* Claims on the lanes of a row.                                           *)
(***************************************************************************)
Lanes == unit.kind = "lanes"
\* the window of the lane constructed last
LastWindow == unit.windows[Len(unit.windows)]
\* a lane has just been destroyed
LaneFlushed == Lanes /\ before # NoUnit /\ upc \in {"call", "returned"}

\* C22: lanes constructed one after another at row offsets 0, W, 2W, ... over
\* a row of N+1 cells (the last one as last lane) touch pairwise disjoint
\* windows whose union is exactly row cells 1..N; row cell 0 and every row
\* cell outside a lane's own window are left unchanged by that lane's load
\* and flush.
C22_LaneWindows ==
    Lanes =>
        /\ \A a \in DOMAIN unit.windows : \A b \in DOMAIN unit.windows :
              a # b => unit.windows[a] \cap unit.windows[b] = {}
        /\ upc = "returned" =>
              UNION {unit.windows[a] : a \in DOMAIN unit.windows}
                  = 1..(Size(unit.row) - 1)
        /\ upc = "live" => unit.row = before.row
        /\ unit.row[0] = unit.entry_row[0]
        /\ LaneFlushed =>
              \A j \in DOMAIN unit.row :
                  unit.row[j] = IF j \in LastWindow THEN WrittenCell
                                ELSE before.row[j]
        /\ DOMAIN unit.row = DOMAIN unit.entry_row

\* a full lane and a last lane of fewer cells have covered a row, every cell
\* of it but cell 0 written
C22_Witness ==
    /\ Lanes /\ upc = "returned"
    /\ Len(unit.windows) = 2
    /\ Cardinality(unit.windows[1]) = LaneWidth
    /\ Cardinality(unit.windows[2]) > 0
    /\ Cardinality(unit.windows[2]) < LaneWidth
    /\ \A j \in 1..(Size(unit.row) - 1) : unit.row[j] = WrittenCell
    /\ unit.row[0] = unit.entry_row[0]

(***************************************************************************)
(* Claims on the packing of a batch.                                       *)
(***************************************************************************)
Pack == unit.kind = "pack"

\* C23 (as claimed): simd_intermediate_dp_vector::initialise only reads
\* symbols that exist: every (i, j) it reads satisfies that sequence i has a
\* value and j lies within sequence i; the DP vector is sized to (longest
\* present sequence length) + 1 and lane i of packed position j holds symbol
\* j of sequence i.
C23_ReadsExistingSymbols ==
    (Pack /\ upc # "call") =>
        /\ \A r \in unit.reads :
              /\ unit.sequence[r[1]].has_value
              /\ r[2] <= Len(unit.sequence[r[1]].value)
        /\ upc # "undefined"
        /\ unit.dp_size = optional_max_sequence_size(unit.sequence) + 1
        /\ upc = "returned" =>
              \A i \in DOMAIN unit.sequence :
                  unit.sequence[i].has_value =>
                      \A j \in 1..Len(unit.sequence[i].value) :
                          unit.simd_sequence[j][i] = unit.sequence[i].value[j]

(***************************************************************************)
(* Claims on the construction of the rank map.                             *)
(***************************************************************************)
RankMap == unit.kind = "rankmap"
RankMapBuilt == RankMap /\ upc = "built"
\* every symbol of the matrix has a rank of the alphabet that is not the
\* invalid marker, and every row of the matrix was copied
RanksValid ==
    /\ \A r \in 0..(unit.dimension - 1) :
           LET rank == unit.symbol_to_rank_map[matrix_symbol(unit.first, r)]
           IN rank \in 0..(unit.dimension - 1) /\ rank # InvalidRank
    /\ unit.rows = 0..(unit.dimension - 1)

\* C24 as stated: for every dimension D with 1 <= D <= 256 the construction
\* terminates, and on termination each matrix symbol maps to a rank in
\* 0..D-1 distinct from the invalid marker 255.
C24_Original ==
    /\ [](RankMapBuilt => RanksValid)
    /\ (RankMap /\ unit.dimension \in 1..RankRange) => <>RankMapBuilt

\* C24 (amended): for every dimension D with 1 <= D <= 255 the construction
\* of the rank map and of the linearised matrix terminates, and on
\* termination each matrix symbol maps to a rank in 0..D-1 distinct from
\* the invalid marker 255.
C24_Terminates ==
    /\ [](RankMapBuilt => RanksValid)
    /\ (RankMap /\ unit.dimension \in 1..(RankRange - 1)) => <>RankMapBuilt

\* the construction has returned for the largest dimension that terminates:
\* the counter has gone through all ranks 0..254
C24_Witness ==
    /\ RankMapBuilt
    /\ unit.dimension = RankRange - 1
    /\ unit.rank = RankRange - 1
    /\ RanksValid

(***************************************************************************)
(* Claims on the gap score of the column head.                             *)
(***************************************************************************)
\* the gap score of an interior cell (compute_cell): the old gap score
\* extended, or a gap opened from m at gap_open + gap_extension
InteriorGap(v_old, m) ==
    VMax(VAdd("wide", v_old, <<model.gap_extension_score>>),
         VAdd("wide", m, <<model.gap_open_score + model.gap_extension_score>>))

\* C25: the gap score initialise_column stores in the column-head cell
\* follows the recurrence of an interior cell: it is
\* max(v_old + ge, m + go + ge), m being the score of the cell the gap is
\* opened from (the m the head held before the call, or the m it takes from
\* the row cell), so that a gap opened at the column head costs
\* gap_open + gap_extend as in compute_cell.
C25_HeadGapRecurrence ==
    Sweeping =>
        unit.column[0].v \in {InteriorGap(before.column[0].v, before.column[0].m),
                              InteriorGap(before.column[0].v, before.row[unit.j].m)}

\* what initialise_column stores: the gap is opened from the m the head held
\* before the call at gap_open alone
HeadGapOpenOnly ==
    Sweeping =>
        unit.column[0].v =
            VMax(VAdd("wide", before.column[0].v, <<model.gap_extension_score>>),
                 VAdd("wide", before.column[0].m, <<model.gap_open_score>>))

=============================================================================
